---- MODULE Spec2Model ----
(***************************************************************************)
(* Model of the admission subsystem of speed-cloudflare-mcp: the           *)
(* per-operation-class RateLimiter (token bucket, daily cap, concurrency   *)
(* cap, backoff) of src/services/rate-limiter.ts with the clock helpers of *)
(* src/utils/time.ts and the configuration of src/config/rate-limits.ts,   *)
(* and the tool pipeline of src/tools/base-tool.ts that sits on top of it. *)
(*                                                                         *)
(* Times are integer milliseconds.  Fractions (jitterFactor, Math.random)  *)
(* are carried in thousandths.                                             *)
(***************************************************************************)
EXTENDS Integers, Sequences, FiniteSets, TLC

\* ------------------------------------------------------------------ bounds
\* number of clock advances in a run
MaxTicks == 2
\* cap of the consecutive denials recorded on one bucket
MaxFailures == 2
\* number of tool invocations in a run
MaxInvocations == 2

\* ----------------------------------------------------------- small helpers
Min(a, b) == IF a <= b THEN a ELSE b

Max(a, b) == IF a >= b THEN a ELSE b

RECURSIVE Pow(_, _)
Pow(b, e) == IF e = 0 THEN 1 ELSE b * Pow(b, e - 1)

\* absent optional number of a result object (undefined in the source)
NoValue == -1

\* ------------------------------------------------------------------- clock
\* 24 * 60 * 60 * 1000
DayMs == 86400000

\* 60 * 60 * 1000
HourMs == 3600000

VARIABLE zone     \* the local time zone of the host (TZ), fixed for the run

\* The zones of the model.  Time 0 is a local midnight in both.  In "utc" every
\* local day has 24 hours.  In "fall_back" the clocks go back one hour during
\* the local day that starts at DayMs (as on the first Sunday of November under
\* TZ=America/New_York), so that day has 25 hours.
Zones == {"utc", "fall_back"}

\* the instant of the k-th local midnight from time 0 on
LocalMidnight(z, k) ==
  IF z = "fall_back" /\ k >= 2 THEN k * DayMs + HourMs ELSE k * DayMs

\* getStartOfDay: new Date(timestamp) with setHours(0, 0, 0, 0), the last
\* local midnight at or before the timestamp
GetStartOfDay(timestamp) ==
  LET k == CHOOSE k \in 0..(timestamp \div DayMs) :
             /\ LocalMidnight(zone, k) <= timestamp
             /\ timestamp < LocalMidnight(zone, k + 1)
  IN  LocalMidnight(zone, k)

GetNextDayStart(timestamp) == GetStartOfDay(timestamp) + DayMs

\* ------------------------------------------------------------ configuration
\* The operation classes of the model: the composite speed test and the
\* download test, two of the classes DEFAULT_RATE_LIMITS configures.
OperationType == {"speed_test", "download_test"}

DEFAULT_RATE_LIMITS ==
  [op \in OperationType |->
     IF op = "speed_test"
     THEN [tokensPerInterval |-> 1, intervalMs |-> 180000, maxBucketSize |-> 2,
           maxDailyRequests |-> 50, maxConcurrentRequests |-> 1]
     ELSE [tokensPerInterval |-> 2, intervalMs |-> 120000, maxBucketSize |-> 3,
           maxDailyRequests |-> 100, maxConcurrentRequests |-> 2]]
  @@ ("connection_info" :>
        [tokensPerInterval |-> 20, intervalMs |-> 60000, maxBucketSize |-> 30,
         maxDailyRequests |-> 1000, maxConcurrentRequests |-> 5])

\* backoffMultiplier and jitterFactor in thousandths (2 and 0.1)
DEFAULT_BACKOFF_CONFIG ==
  [baseDelayMs |-> 1000, maxDelayMs |-> 60000,
   backoffMultiplier |-> 2000, jitterFactor |-> 100]

\* 'speed_test'.replace(/([A-Z])/g, '_$1').toUpperCase(): the class tags hold
\* no capital letter, so the result is the upper-cased tag
camelToScreamingSnakeCase(str) ==
  IF str = "speed_test" THEN "SPEED_TEST"
  ELSE IF str = "download_test" THEN "DOWNLOAD_TEST"
  ELSE "CONNECTION_INFO"

\* An environment value is a sequence of characters.
Digits == <<"0", "1", "2", "3", "4", "5", "6", "7", "8", "9">>

IsDigit(c) == \E i \in 1..10 : Digits[i] = c

DigitValue(c) == (CHOOSE i \in 1..10 : Digits[i] = c) - 1

\* value of the longest prefix of digits of s from position i on, given the
\* value acc of the digits read so far
RECURSIVE ReadDigits(_, _, _)
ReadDigits(s, i, acc) ==
  IF i <= Len(s) /\ IsDigit(s[i])
  THEN ReadDigits(s, i + 1, acc * 10 + DigitValue(s[i]))
  ELSE acc

RECURSIVE DigitRun(_, _)
DigitRun(s, i) == IF i <= Len(s) /\ IsDigit(s[i]) THEN 1 + DigitRun(s, i + 1) ELSE 0

NaN == [nan |-> TRUE, n |-> 0]

Num(n) == [nan |-> FALSE, n |-> n]

\* parseInt(v, 10): optional sign, then the leading digits; NaN without one
ParseInt(v) ==
  LET neg == Len(v) >= 1 /\ v[1] = "-"
      from == IF neg THEN 2 ELSE 1
  IN  IF DigitRun(v, from) = 0 THEN NaN
      ELSE Num((IF neg THEN -1 ELSE 1) * ReadDigits(v, from, 0))

\* parseFloat(v), in thousandths: sign, digits, and up to three decimals
ParseFloat(v) ==
  LET neg  == Len(v) >= 1 /\ v[1] = "-"
      from == IF neg THEN 2 ELSE 1
      il   == DigitRun(v, from)
      dot  == from + il
      hasF == dot <= Len(v) /\ v[dot] = "."
      fl   == IF hasF THEN Min(DigitRun(v, dot + 1), 3) ELSE 0
      frac == IF fl = 0 THEN 0
              ELSE ReadDigits(SubSeq(v, dot + 1, dot + fl), 1, 0) * Pow(10, 3 - fl)
  IN  IF il = 0 /\ fl = 0 THEN NaN
      ELSE Num((IF neg THEN -1 ELSE 1) * (ReadDigits(v, from, 0) * 1000 + frac))

\* parseEnvValue: default when unset, not a number, negative or above maxValue
parseEnvValue(env, envVar, defaultValue, parsed, maxValue) ==
  IF envVar \notin DOMAIN env THEN defaultValue
  ELSE IF parsed.nan THEN defaultValue
  ELSE IF parsed.n < 0 THEN defaultValue
  ELSE IF parsed.n > maxValue THEN defaultValue
  ELSE parsed.n

getEnvInteger(env, envVar, defaultValue, maxValue) ==
  parseEnvValue(env, envVar, defaultValue,
                IF envVar \in DOMAIN env THEN ParseInt(env[envVar]) ELSE NaN,
                maxValue)

\* maxValue in thousandths, as the parsed value
getEnvNumber(env, envVar, defaultValue, maxValue) ==
  parseEnvValue(env, envVar, defaultValue,
                IF envVar \in DOMAIN env THEN ParseFloat(env[envVar]) ELSE NaN,
                maxValue)

getRateLimitConfig(env, operationType) ==
  LET envPrefix == camelToScreamingSnakeCase(operationType)
      defaultConfig == DEFAULT_RATE_LIMITS[operationType]
  IN  [tokensPerInterval |->
         getEnvInteger(env, <<envPrefix, "TOKENS_PER_INTERVAL">>,
                       defaultConfig.tokensPerInterval, 1000),
       intervalMs |->
         getEnvInteger(env, <<envPrefix, "INTERVAL_MS">>,
                       defaultConfig.intervalMs, 24 * 60 * 60 * 1000),
       maxBucketSize |->
         getEnvInteger(env, <<envPrefix, "MAX_BUCKET_SIZE">>,
                       defaultConfig.maxBucketSize, 10000),
       maxDailyRequests |->
         getEnvInteger(env, <<envPrefix, "MAX_DAILY_REQUESTS">>,
                       defaultConfig.maxDailyRequests, 100000),
       maxConcurrentRequests |->
         getEnvInteger(env, <<envPrefix, "MAX_CONCURRENT_REQUESTS">>,
                       defaultConfig.maxConcurrentRequests, 100)]

getBackoffConfig(env) ==
  [baseDelayMs |->
     getEnvInteger(env, <<"BACKOFF", "BASE_DELAY_MS">>,
                   DEFAULT_BACKOFF_CONFIG.baseDelayMs, 60000),
   maxDelayMs |->
     getEnvInteger(env, <<"BACKOFF", "MAX_DELAY_MS">>,
                   DEFAULT_BACKOFF_CONFIG.maxDelayMs, 600000),
   backoffMultiplier |->
     getEnvNumber(env, <<"BACKOFF", "MULTIPLIER">>,
                  DEFAULT_BACKOFF_CONFIG.backoffMultiplier, 10 * 1000),
   jitterFactor |->
     getEnvNumber(env, <<"BACKOFF", "JITTER_FACTOR">>,
                  DEFAULT_BACKOFF_CONFIG.jitterFactor, 1000)]

\* The environments of the model: none set; and one that shrinks the daily
\* caps and the speed-test bucket so that a short run exhausts them, lowers the
\* backoff ceiling so that a short run reaches it, and switches the jitter off.
EmptyEnv == [k \in {} |-> <<>>]

TightEnv ==
  [k \in {<<"SPEED_TEST", "MAX_DAILY_REQUESTS">>,
          <<"SPEED_TEST", "MAX_BUCKET_SIZE">>,
          <<"DOWNLOAD_TEST", "MAX_DAILY_REQUESTS">>,
          <<"CONNECTION_INFO", "MAX_DAILY_REQUESTS">>,
          <<"CONNECTION_INFO", "MAX_BUCKET_SIZE">>,
          <<"BACKOFF", "JITTER_FACTOR">>,
          <<"BACKOFF", "MAX_DELAY_MS">>} |->
     IF k[2] = "MAX_DAILY_REQUESTS" THEN <<"3">>
     ELSE IF k[2] = "MAX_BUCKET_SIZE" THEN <<"1">>
     ELSE IF k[2] = "JITTER_FACTOR" THEN <<"0">>
     ELSE <<"3", "0", "0", "0">>]

EnvChoices == {EmptyEnv, TightEnv}

\* --------------------------------------------------------- src/utils/time.ts
\* a hint of a whole interval, whatever has elapsed of it
calculateWaitTimeWhole(t, lastRefill, intervalMs) == intervalMs

\* calculateWaitTime with tokensNeeded = 1
calculateWaitTime(t, lastRefill, intervalMs) ==
  LET timeSinceLastRefill == t - lastRefill
  IN  intervalMs - (timeSinceLastRefill % intervalMs)

\* the refill arithmetic with the interval test off by one: an interval that
\* has just elapsed does not count yet
calculateTokensToAddLate(t, lastRefill, tokensPerInterval, intervalMs, maxBucketSize, currentTokens) ==
  LET timeSinceLastRefill == t - lastRefill
      intervalsElapsed == timeSinceLastRefill \div intervalMs
  IN  IF timeSinceLastRefill <= intervalMs
      THEN [tokensToAdd |-> 0, newLastRefill |-> lastRefill]
      ELSE [tokensToAdd |-> Min(intervalsElapsed * tokensPerInterval,
                                maxBucketSize - currentTokens),
            newLastRefill |-> lastRefill + intervalsElapsed * intervalMs]

calculateTokensToAdd(t, lastRefill, tokensPerInterval, intervalMs, maxBucketSize, currentTokens) ==
  LET timeSinceLastRefill == t - lastRefill
      intervalsElapsed == timeSinceLastRefill \div intervalMs
  IN  IF timeSinceLastRefill < intervalMs
      THEN [tokensToAdd |-> 0, newLastRefill |-> lastRefill]
      ELSE [tokensToAdd |-> Min(intervalsElapsed * tokensPerInterval,
                                maxBucketSize - currentTokens),
            newLastRefill |-> lastRefill + intervalsElapsed * intervalMs]

\* baseDelayMs * Math.pow(backoffMultiplier, n), the multiplier in thousandths
RECURSIVE Scaled(_, _, _)
Scaled(baseDelayMs, backoffMultiplier, n) ==
  IF n = 0 THEN baseDelayMs
  ELSE (Scaled(baseDelayMs, backoffMultiplier, n - 1) * backoffMultiplier) \div 1000

\* calculateBackoffDelay; backoffMultiplier and jitterFactor in thousandths,
\* random is Math.random() in thousandths.  The environments and random
\* values of the model keep every quotient exact.
calculateBackoffDelay(consecutiveFailures, baseDelayMs, maxDelayMs, backoffMultiplier, jitterFactor, random) ==
  LET exponentialDelay == Scaled(baseDelayMs, backoffMultiplier, consecutiveFailures)
      cappedDelay == Min(exponentialDelay, maxDelayMs)
      jitter == (((cappedDelay * jitterFactor) \div 1000) * (random - 500)) \div 1000
  IN  Max(0, cappedDelay + jitter)

\* the values Math.random() takes in the model, in thousandths
RandomChoices == {0, 990}

\* ------------------------------------------------ src/services/rate-limiter.ts
VARIABLES
  now,            \* Date.now()
  ticks,          \* clock advances so far
  configs,        \* RateLimiter.configs: class -> RateLimitConfig
  backoffConfig,  \* RateLimiter.backoffConfig
  states,         \* RateLimiter.states: class -> TokenBucketState
  backoffStates,  \* RateLimiter.backoffStates: class -> BackoffState
  focus,          \* the class the calls of the run go to
  admitted,       \* per class, the times of the allowed admissions since the
                  \* bucket was (re)initialized, where the run records them
  last,           \* the last call on the limiter: its arguments, the bucket as
                  \* the opening state touch left it, and what it returned
  invocations,    \* the tool invocations so far, in order of arrival
  discovery,      \* the ServerDiscoveryService: its cache, the connection_info
                  \* bucket of the rate limiter, its last call, and the number
                  \* of its calls of fetchServers that have not settled
  theServer       \* the SpeedCloudflareServer: its state, its transport, its
                  \* shutdown handlers and how far stop() has come

\* a starting state filled with one interval's tokens instead of the bucket size
initializeStatePartly(t, config) ==
  [tokens |-> config.tokensPerInterval,
   lastRefill |-> t,
   dailyRequestCount |-> 0,
   dailyResetTime |-> GetNextDayStart(t),
   concurrentRequests |-> 0]

initializeState(t, config) ==
  [tokens |-> config.maxBucketSize,
   lastRefill |-> t,
   dailyRequestCount |-> 0,
   dailyResetTime |-> GetNextDayStart(t),
   concurrentRequests |-> 0]

initialBackoffState == [consecutiveFailures |-> 0, lastFailureTime |-> 0]

\* a refill that trusts the elapsed intervals and clamps nowhere
refillTokensUncapped(config, state, t) ==
  LET elapsed == (t - state.lastRefill) \div config.intervalMs
  IN  IF elapsed > 0
      THEN [state EXCEPT !.tokens = state.tokens + elapsed * config.tokensPerInterval,
                         !.lastRefill = state.lastRefill + elapsed * config.intervalMs]
      ELSE state

refillTokens(config, state, t) ==
  LET r == calculateTokensToAdd(t, state.lastRefill, config.tokensPerInterval,
                                config.intervalMs, config.maxBucketSize,
                                state.tokens)
  IN  IF r.tokensToAdd > 0
      THEN [state EXCEPT !.tokens = Min(state.tokens + r.tokensToAdd,
                                        config.maxBucketSize),
                         !.lastRefill = r.newLastRefill]
      ELSE state

resetDailyCountIfNeeded(state, t) ==
  IF t >= state.dailyResetTime
  THEN [state EXCEPT !.dailyRequestCount = 0,
                     !.dailyResetTime = GetNextDayStart(t)]
  ELSE state

\* the state touch that opens checkRateLimit and getStatus
touch(config, state, t) == resetDailyCountIfNeeded(refillTokens(config, state, t), t)

\* A RateLimitResult.  reason is the set of lower-cased words of the message
\* (empty when the result has no reason); absent numbers are NoValue.
Result(allowed, remainingTokens, waitTimeMs, dailyRequestsRemaining, reason) ==
  [allowed |-> allowed, remainingTokens |-> remainingTokens,
   waitTimeMs |-> waitTimeMs, dailyRequestsRemaining |-> dailyRequestsRemaining,
   reason |-> reason]

Pass == Result(TRUE, NoValue, NoValue, NoValue, {})

ConcurrentReason == {"maximum", "concurrent", "requests", "exceeded"}

DailyReason == {"daily", "limit", "exceeded"}

TokenReason == {"token", "bucket", "depleted"}

\* config.concurrentLimitWaitMs || 1000: no configuration sets the field
ConcurrentLimitWaitMs == 1000

checkConcurrentLimit(config, state) ==
  IF state.concurrentRequests >= config.maxConcurrentRequests
  THEN Result(FALSE, NoValue, ConcurrentLimitWaitMs, NoValue, ConcurrentReason)
  ELSE Pass

\* the daily gate closing one request late
checkDailyLimitLate(config, state, t) ==
  IF state.dailyRequestCount > config.maxDailyRequests
  THEN Result(FALSE, NoValue, state.dailyResetTime - t, 0, DailyReason)
  ELSE Pass

checkDailyLimit(config, state, t) ==
  IF state.dailyRequestCount >= config.maxDailyRequests
  THEN Result(FALSE, NoValue, state.dailyResetTime - t, 0, DailyReason)
  ELSE Pass

checkTokenBucket(config, state, t) ==
  IF state.tokens < 1
  THEN Result(FALSE, 0,
              calculateWaitTime(t, state.lastRefill, config.intervalMs),
              NoValue, TokenReason)
  ELSE Pass

\* a consumption that forgets the daily count
\* an admission that takes nothing from the bucket
consumeNoToken(state) == state

consumeTokenOnly(state) ==
  [state EXCEPT !.tokens = Max(0, state.tokens - 1)]

consumeToken(state) ==
  [state EXCEPT !.tokens = Max(0, state.tokens - 1),
                !.dailyRequestCount = state.dailyRequestCount + 1]

\* the gates with the daily one asked first
gateResultDailyFirst(config, state, t) ==
  LET concurrentCheck == checkConcurrentLimit(config, state)
      dailyCheck == checkDailyLimit(config, state, t)
      tokenCheck == checkTokenBucket(config, state, t)
  IN  IF ~dailyCheck.allowed THEN dailyCheck
      ELSE IF ~concurrentCheck.allowed THEN concurrentCheck
      ELSE IF ~tokenCheck.allowed THEN tokenCheck
      ELSE Pass

\* the first gate that denies, in the order checkRateLimit evaluates them
gateResult(config, state, t) ==
  LET concurrentCheck == checkConcurrentLimit(config, state)
      dailyCheck == checkDailyLimit(config, state, t)
      tokenCheck == checkTokenBucket(config, state, t)
  IN  IF ~concurrentCheck.allowed THEN concurrentCheck
      ELSE IF ~dailyCheck.allowed THEN dailyCheck
      ELSE IF ~tokenCheck.allowed THEN tokenCheck
      ELSE Pass

\* an admission that takes its token before it asks the gates
checkRateLimitConsumeFirst(config, state, backoff, t) ==
  LET touched == touch(config, state, t)
      gate == gateResult(config, touched, t)
      consumed == consumeToken(touched)
  IN  IF ~gate.allowed
      THEN [state |-> consumed, backoff |-> backoff, touched |-> touched,
            result |-> gate]
      ELSE [state |-> consumed, backoff |-> initialBackoffState,
            touched |-> touched,
            result |-> Result(TRUE, consumed.tokens, NoValue,
                              config.maxDailyRequests - consumed.dailyRequestCount,
                              {})]

\* checkRateLimit(operationType) at time t: the bucket and backoff state it
\* leaves, the bucket after its opening state touch, and its result
checkRateLimit(config, state, backoff, t) ==
  LET touched == touch(config, state, t)
      gate == gateResult(config, touched, t)
      consumed == consumeToken(touched)
  IN  IF ~gate.allowed
      THEN [state |-> touched, backoff |-> backoff, touched |-> touched,
            result |-> gate]
      ELSE [state |-> consumed, backoff |-> initialBackoffState,
            touched |-> touched,
            result |-> Result(TRUE, consumed.tokens, NoValue,
                              config.maxDailyRequests - consumed.dailyRequestCount,
                              {})]

\* the mapping without its daily branch
mapReasonWithoutDaily(reason) ==
  IF "concurrent" \in reason \/ {"maximum", "concurrent"} \subseteq reason
  THEN "concurrent_limit"
  ELSE "token_bucket"

mapReasonToLimitType(reason) ==
  IF "concurrent" \in reason \/ {"maximum", "concurrent"} \subseteq reason
  THEN "concurrent_limit"
  ELSE IF "daily" \in reason \/ {"daily", "limit"} \subseteq reason
  THEN "daily_limit"
  ELSE "token_bucket"

releasePermission(state) ==
  IF state.concurrentRequests > 0
  THEN [state EXCEPT !.concurrentRequests = @ - 1]
  ELSE state

recordFailure(backoff, t) ==
  [consecutiveFailures |-> backoff.consecutiveFailures + 1, lastFailureTime |-> t]

calculateCurrentBackoffDelay(config, backoff, random) ==
  IF backoff.consecutiveFailures = 0 THEN 0
  ELSE calculateBackoffDelay(backoff.consecutiveFailures,
                             config.baseDelayMs, config.maxDelayMs,
                             config.backoffMultiplier, config.jitterFactor, random)

\* ------------------------------------------------------------------ actions
vars == <<now, ticks, zone, configs, backoffConfig, states, backoffStates, focus,
          admitted, last, invocations, discovery, theServer>>

\* the starting time of the model
StartTimes == {0}

\* the clock advances of the model: a third of the longer refill interval,
\* that interval, and a day
Deltas == {60000, 180000, DayMs}

NoState == initializeState(0, [tokensPerInterval |-> 0, maxBucketSize |-> 0])

\* the record of a call: kind and class, the time, the bucket as the opening
\* state touch left it, the result of checkRateLimit or getStatus, and for
\* acquirePermission whether it threw, the backoff delay it computed and the
\* waitTimeMs and reason of the RateLimitError
Call(kind, op, touched, result, thrown, backoffDelay, waitTimeMs, reason) ==
  [kind |-> kind, op |-> op, at |-> now, touched |-> touched,
   result |-> result, thrown |-> thrown,
   error |-> IF thrown THEN "RateLimitError" ELSE "none",
   backoffDelay |-> backoffDelay, waitTimeMs |-> waitTimeMs, reason |-> reason]

NoCall == [kind |-> "none", op |-> "none", at |-> 0, touched |-> NoState,
           result |-> Pass, thrown |-> FALSE, error |-> "none",
           backoffDelay |-> 0, waitTimeMs |-> 0, reason |-> "none"]

\* new RateLimiter() at a starting time, in one of the environments
\* this.cache = null
NoCache == [servers |-> <<>>, timestamp |-> NoValue]

\* A call of the ServerDiscoveryService: the method; whether it asked the rate
\* limiter, and the answer; whether it fetched upstream, and how that went; the
\* error it threw; the servers getServers returned; its arguments.
Lookup(kind, admission, fetch, error, servers, filter, userLocation) ==
  [kind |-> kind, admission |-> admission, fetch |-> fetch, error |-> error,
   servers |-> servers, filter |-> filter, userLocation |-> userLocation]

\* a filter and a user location that are undefined
NoArgument == [given |-> FALSE]

NoLookup == Lookup("none", "none", "none", "none", <<>>, NoArgument, NoArgument)

Init ==
  /\ now \in StartTimes
  /\ ticks = 0
  /\ zone \in Zones
  /\ \E env \in EnvChoices :
       /\ configs = [op \in OperationType |-> getRateLimitConfig(env, op)]
       /\ backoffConfig = getBackoffConfig(env)
       /\ discovery =
            [cache |-> NoCache,
             config |-> getRateLimitConfig(env, "connection_info"),
             bucket |-> initializeState(now, getRateLimitConfig(env, "connection_info")),
             call |-> NoLookup,
             fetching |-> 0,
             response |-> [success |-> FALSE, isError |-> FALSE, code |-> "pending",
                           text |-> ""]]
  /\ states = [op \in OperationType |-> initializeState(now, configs[op])]
  /\ backoffStates = [op \in OperationType |-> initialBackoffState]
  /\ focus \in OperationType
  /\ admitted = [op \in OperationType |-> <<>>]
  /\ last = NoCall
  /\ invocations = <<>>
  /\ theServer = [isConnected |-> FALSE, isShuttingDown |-> FALSE,
               transport |-> "null", shutdownHandlers |-> <<>>,
               next |-> 0, running |-> {}, ran |-> <<>>,
               atStop |-> [handlers |-> 0, inFlight |-> {}, time |-> 0]]

\* the clock advances
Tick(d) ==
  /\ ticks < MaxTicks
  /\ now' = now + d
  /\ ticks' = ticks + 1
  /\ last' = NoCall
  /\ UNCHANGED <<zone, configs, backoffConfig, states, backoffStates, focus, theServer, discovery, admitted, invocations>>

\* rateLimiter.checkRateLimit(op), but for the record of the admissions
CheckRateLimitCall(op) ==
  LET r == checkRateLimit(configs[op], states[op], backoffStates[op], now)
  IN  /\ states' = [states EXCEPT ![op] = r.state]
      /\ backoffStates' = [backoffStates EXCEPT ![op] = r.backoff]
      /\ last' = Call("check", op, r.touched, r.result,
                      FALSE, 0, 0, "none")
      /\ UNCHANGED <<now, ticks, zone, configs, backoffConfig, focus, theServer, discovery>>

\* rateLimiter.checkRateLimit(op)
CheckRateLimit(op) ==
  /\ CheckRateLimitCall(op)
  /\ UNCHANGED <<admitted, invocations>>

\* rateLimiter.acquirePermission(op); random is the value of Math.random()
AcquirePermission(op, random) ==
  LET r == checkRateLimit(configs[op], states[op], backoffStates[op], now)
      failed == recordFailure(r.backoff, now)
      backoffDelay == calculateCurrentBackoffDelay(backoffConfig, failed, random)
      totalWaitTime ==
        Max(IF r.result.waitTimeMs = NoValue THEN 0 ELSE r.result.waitTimeMs,
            backoffDelay)
  IN  IF ~r.result.allowed
      THEN /\ backoffStates[op].consecutiveFailures < MaxFailures
           /\ states' = [states EXCEPT ![op] = r.state]
           /\ backoffStates' = [backoffStates EXCEPT ![op] = failed]
           /\ last' = Call("acquire", op, r.touched, r.result,
                           TRUE, backoffDelay, totalWaitTime,
                           mapReasonToLimitType(r.result.reason))
           /\ UNCHANGED <<now, ticks, zone, configs, backoffConfig, focus, theServer, discovery, admitted, invocations>>
      ELSE /\ states' = [states EXCEPT ![op] =
                           [r.state EXCEPT !.concurrentRequests = @ + 1]]
           /\ backoffStates' = [backoffStates EXCEPT ![op] = r.backoff]
           /\ last' = Call("acquire", op, r.touched, r.result,
                           FALSE, 0, 0, "none")
           /\ UNCHANGED <<now, ticks, zone, configs, backoffConfig, focus, theServer, discovery, admitted, invocations>>

\* rateLimiter.releasePermission(op)
ReleasePermission(op) ==
  /\ states' = [states EXCEPT ![op] = releasePermission(@)]
  /\ last' = Call("release", op, states[op], Pass,
                  FALSE, 0, 0, "none")
  /\ UNCHANGED <<now, ticks, zone, configs, backoffConfig, backoffStates, focus, theServer, discovery, admitted, invocations>>

\* rateLimiter.getStatus(op)
GetStatus(op) ==
  LET touched == touch(configs[op], states[op], now)
  IN  /\ states' = [states EXCEPT ![op] = touched]
      /\ last' = Call("status", op, touched,
                      Result(TRUE, touched.tokens,
                             calculateWaitTime(now, touched.lastRefill,
                                               configs[op].intervalMs),
                             configs[op].maxDailyRequests - touched.dailyRequestCount,
                             {}),
                      FALSE, 0, 0, "none")
      /\ UNCHANGED <<now, ticks, zone, configs, backoffConfig, backoffStates, focus, theServer, discovery, admitted, invocations>>

\* a reset that ignores its argument and reinitializes every class
ResetEvery(op) ==
  /\ states' = [c \in OperationType |-> initializeState(now, configs[c])]
  /\ backoffStates' = [c \in OperationType |-> initialBackoffState]
  /\ admitted' = [c \in OperationType |-> <<>>]
  /\ last' = Call("reset", op, states[op], Pass,
                  FALSE, 0, 0, "none")
  /\ UNCHANGED <<now, ticks, zone, configs, backoffConfig, focus, theServer, discovery, invocations>>

\* rateLimiter.reset(op)
Reset(op) ==
  /\ states' = [states EXCEPT ![op] = initializeState(now, configs[op])]
  /\ backoffStates' = [backoffStates EXCEPT ![op] = initialBackoffState]
  /\ admitted' = [admitted EXCEPT ![op] = <<>>]
  /\ last' = Call("reset", op, states[op], Pass,
                  FALSE, 0, 0, "none")
  /\ UNCHANGED <<now, ticks, zone, configs, backoffConfig, focus, theServer, discovery, invocations>>

\* rateLimiter.reset()
ResetAll ==
  /\ states' = [op \in OperationType |-> initializeState(now, configs[op])]
  /\ backoffStates' = [op \in OperationType |-> initialBackoffState]
  /\ admitted' = [op \in OperationType |-> <<>>]
  /\ last' = Call("resetAll", "none", NoState, Pass, FALSE, 0, 0, "none")
  /\ UNCHANGED <<now, ticks, zone, configs, backoffConfig, focus, theServer, discovery, invocations>>

Next ==
  \/ \E d \in Deltas : Tick(d)
  \/ CheckRateLimit(focus)
  \/ \E random \in RandomChoices : AcquirePermission(focus, random)
  \/ ReleasePermission(focus)
  \/ GetStatus(focus)
  \/ Reset(focus)
  \/ ResetAll

Spec == Init /\ [][Next]_vars

\* ------------------------------------------------------ the admission window
\* checkRateLimit(op), the run recording the time of each allowed admission
Admission(op) ==
  /\ CheckRateLimitCall(op)
  /\ admitted' = IF last'.result.allowed
                 THEN [admitted EXCEPT ![op] = Append(@, now)]
                 ELSE admitted
  /\ UNCHANGED invocations

NextWindow ==
  \/ \E d \in Deltas : Tick(d)
  \/ Admission(focus)

SpecWindow == Init /\ [][NextWindow]_vars

\* -------------------------------------------------- src/tools/base-tool.ts
\* An argument value: undefined, a number, a string (its characters) or an
\* array (its elements).
Undefined == [type |-> "undefined"]

NumberV(n) == [type |-> "number", n |-> n]

StringV(chars) == [type |-> "string", chars |-> chars]

ArrayV(items) == [type |-> "array", items |-> items]

\* the tools of the model, each bound to one of the modelled classes
Tools == {"run_speed_test", "test_download_speed"}

getOperationType(tool) ==
  IF tool = "run_speed_test" THEN "speed_test" ELSE "download_test"

RECURSIVE TrimStart(_)
TrimStart(chars) ==
  IF chars # <<>> /\ Head(chars) = " " THEN TrimStart(Tail(chars)) ELSE chars

RECURSIVE TrimEnd(_)
TrimEnd(chars) ==
  IF chars # <<>> /\ chars[Len(chars)] = " "
  THEN TrimEnd(SubSeq(chars, 1, Len(chars) - 1))
  ELSE chars

Trim(chars) == TrimEnd(TrimStart(chars))

\* BaseTool.validateArguments: TRUE when it does not throw
baseValidateArguments(args) ==
  /\ args.timeout.type # "undefined" =>
       /\ args.timeout.type = "number"
       /\ ~(args.timeout.n <= 0)
       /\ ~(args.timeout.n > 300)
  /\ args.serverLocation.type # "undefined" =>
       /\ args.serverLocation.type = "string"
       /\ Len(Trim(args.serverLocation.chars)) # 0

\* DownloadTestTool.validateArguments (measurementBytes is undefined in the
\* arguments of the model)
downloadValidateArguments(args) ==
  /\ baseValidateArguments(args)
  /\ args.duration.type # "undefined" =>
       /\ args.duration.type = "number"
       /\ ~(args.duration.n < 5)
       /\ ~(args.duration.n > 60)

SpeedTestTypes == {"latency", "download", "upload", "packetLoss"}

\* SpeedTestTool.validateArguments (comprehensiveMode and the nested option
\* objects are undefined in the arguments of the model)
speedValidateArguments(args) ==
  /\ baseValidateArguments(args)
  /\ args.testTypes.type # "undefined" =>
       /\ args.testTypes.type = "array"
       /\ Len(args.testTypes.items) # 0
       /\ \A k \in 1..Len(args.testTypes.items) :
            args.testTypes.items[k] \in SpeedTestTypes

validateArguments(tool, args) ==
  IF tool = "run_speed_test" THEN speedValidateArguments(args)
  ELSE downloadValidateArguments(args)

Args(timeout, serverLocation, duration, testTypes) ==
  [timeout |-> timeout, serverLocation |-> serverLocation,
   duration |-> duration, testTypes |-> testTypes]

\* the argument objects of the model
ArgChoices ==
  {Args(Undefined, Undefined, Undefined, Undefined),
   Args(NumberV(30), StringV(<<"L", "A", "X">>), NumberV(15),
        ArrayV(<<"latency", "download">>)),
   Args(NumberV(0), Undefined, Undefined, Undefined),
   Args(NumberV(301), Undefined, Undefined, Undefined),
   Args(StringV(<<"3", "0">>), Undefined, Undefined, Undefined),
   Args(Undefined, StringV(<<" ">>), Undefined, Undefined),
   Args(Undefined, Undefined, NumberV(4), ArrayV(<<>>)),
   Args(Undefined, Undefined, NumberV(61), ArrayV(<<"latency", "ping">>)),
   Args(Undefined, Undefined, Undefined, ArrayV(<<"invalid">>))}

\* msg.includes(needle)
Includes(msg, needle) ==
  \E i \in 1..(Len(msg) - Len(needle) + 1) :
    SubSeq(msg, i, i + Len(needle) - 1) = needle

\* an error object without a code property
NoCode == "none"

\* an Error: its name, its message and its code property
Error(name, message, code) == [name |-> name, message |-> message, code |-> code]

NoError == Error("none", "", NoCode)

\* BaseTool.validateArguments: the error it throws, NoError when it returns
baseValidationError(args) ==
  IF args.timeout.type # "undefined"
       /\ (args.timeout.type # "number" \/ args.timeout.n <= 0 \/ args.timeout.n > 300)
  THEN Error("Error", "Timeout must be a positive number between 1 and 300 seconds", NoCode)
  ELSE IF args.serverLocation.type # "undefined"
            /\ (args.serverLocation.type # "string"
                  \/ Len(Trim(args.serverLocation.chars)) = 0)
  THEN Error("Error", "Server location must be a non-empty string", NoCode)
  ELSE NoError

\* DownloadTestTool.validateArguments: the error it throws
downloadValidationError(args) ==
  IF baseValidationError(args) # NoError THEN baseValidationError(args)
  ELSE IF args.duration.type # "undefined"
            /\ (args.duration.type # "number" \/ args.duration.n < 5 \/ args.duration.n > 60)
  THEN Error("Error", "Duration must be a number between 5 and 60 seconds", NoCode)
  ELSE NoError

\* invalidTypes.join(', ') for the types of the array that are not valid
RECURSIVE JoinInvalid(_)
JoinInvalid(items) ==
  IF items = <<>> THEN ""
  ELSE IF Head(items) \in SpeedTestTypes THEN JoinInvalid(Tail(items))
  ELSE IF JoinInvalid(Tail(items)) = "" THEN Head(items)
  ELSE Head(items) \o ", " \o JoinInvalid(Tail(items))

\* SpeedTestTool.validateArguments: the error it throws
speedValidationError(args) ==
  IF baseValidationError(args) # NoError THEN baseValidationError(args)
  ELSE IF args.testTypes.type = "undefined" THEN NoError
  ELSE IF args.testTypes.type # "array" \/ Len(args.testTypes.items) = 0
  THEN Error("Error", "Test types must be a non-empty array", NoCode)
  ELSE IF JoinInvalid(args.testTypes.items) # ""
  THEN Error("Error", "Invalid test types: " \o JoinInvalid(args.testTypes.items), NoCode)
  ELSE NoError

validationError(tool, args) ==
  IF tool = "run_speed_test" THEN speedValidationError(args)
  ELSE downloadValidationError(args)

\* BaseTool.getErrorCode: the code property if the error has one, else the
\* first of the message tests that matches
\* a derivation that asks the message before the code of the error
getErrorCodeMessageFirst(error) ==
  IF Includes(error.message, "timeout") THEN "TIMEOUT_ERROR"
  ELSE IF Includes(error.message, "rate limit") THEN "RATE_LIMIT_ERROR"
  ELSE IF Includes(error.message, "validation") \/ Includes(error.message, "invalid")
  THEN "VALIDATION_ERROR"
  ELSE IF Includes(error.message, "network") \/ Includes(error.message, "connection")
  THEN "NETWORK_ERROR"
  ELSE IF error.code # NoCode THEN error.code
  ELSE "EXECUTION_ERROR"

getErrorCode(error) ==
  IF error.code # NoCode THEN error.code
  ELSE IF Includes(error.message, "timeout") THEN "TIMEOUT_ERROR"
  ELSE IF Includes(error.message, "rate limit") THEN "RATE_LIMIT_ERROR"
  ELSE IF Includes(error.message, "validation") \/ Includes(error.message, "invalid")
  THEN "VALIDATION_ERROR"
  ELSE IF Includes(error.message, "network") \/ Includes(error.message, "connection")
  THEN "NETWORK_ERROR"
  ELSE "EXECUTION_ERROR"

\* The response of execute: the success flag of its JSON text, the isError
\* flag of the response (absent is FALSE), and error.code of the text.
\* text is the text of its one content block.
Envelope(success, isError, code, text) ==
  [success |-> success, isError |-> isError, code |-> code, text |-> text]

NoEnvelope == [success |-> FALSE, isError |-> FALSE, code |-> "pending", text |-> ""]

\* JSON.stringify of the response object of formatResponse (success, data,
\* executionTime, timestamp) and of formatErrorResponse (success, error,
\* executionTime, timestamp), without the indentation; data is an object with
\* one number, and the message and details of the error are left out
JsonStringify(response) ==
  "{\"success\":" \o (IF response.success THEN "true" ELSE "false")
    \o (IF response.success
        THEN ",\"data\":{\"bandwidth\":" \o ToString(response.data) \o "}"
        ELSE ",\"error\":{\"code\":\"" \o response.code \o "\"}")
    \o ",\"executionTime\":" \o ToString(response.executionTime)
    \o ",\"timestamp\":\"" \o response.timestamp \o "\"}"

\* JSON.parse on the texts of the model: the response object that the text
\* serializes, or a SyntaxError when the text serializes none
JsonParse(text) ==
  LET Responses ==
        [success : BOOLEAN, data : {0, 94000000},
         code : {NoCode, "EXECUTION_ERROR", "VALIDATION_ERROR",
                 "SPEED_TEST_RETRY_EXHAUSTED", "SERVER_INFO_ERROR"},
         executionTime : {0, 1500}, timestamp : {"2026-01-01T00:00:00.000Z"}]
  IN  IF \E response \in Responses : JsonStringify(response) = text
      THEN [ok |-> TRUE,
            value |-> CHOOSE response \in Responses : JsonStringify(response) = text]
      ELSE [ok |-> FALSE]

\* new Date().toISOString() and the execution time, which the model fixes
Stamp(success, data, code) ==
  [success |-> success, data |-> data, code |-> code, executionTime |-> 1500,
   timestamp |-> "2026-01-01T00:00:00.000Z"]

\* BaseTool.formatResponse
formatResponse(result) ==
  Envelope(result.success, FALSE, NoCode,
           JsonStringify(Stamp(result.success, result.data, NoCode)))

\* formatErrorResponse leaving isError out of the response
formatErrorResponseUnflagged(error) ==
  Envelope(FALSE, FALSE, getErrorCode(error),
           JsonStringify(Stamp(FALSE, 0, getErrorCode(error))))

\* BaseTool.formatErrorResponse
formatErrorResponse(error) ==
  Envelope(FALSE, TRUE, getErrorCode(error),
           JsonStringify(Stamp(FALSE, 0, getErrorCode(error))))

\* the outcomes of the probe engine within the deadline of executeSpeedTest:
\* onFinish, onError, or neither before the timer fires
ProbeOutcomes == {"results", "failure", "timeout"}

\* the error executeSpeedTest rejects with
executeSpeedTestError(outcome) ==
  IF outcome = "timeout"
  THEN Error("TimeoutError", "Operation timed out after 120000ms", NoCode)
  ELSE Error("SpeedTestError", "Speed test execution failed: engine error",
             "SPEED_TEST_EXECUTION_ERROR")

\* HttpClient.withRetry when its last attempt failed with lastError
withRetryError(lastError) ==
  Error("RetryError", "Failed after 3 attempts. Last error: " \o lastError.message, NoCode)

\* CloudflareSpeedTestClient.runSpeedTest: the error it throws for a failed
\* withRetry, which is always a RetryError
runSpeedTestError(outcome) ==
  Error("SpeedTestError",
        "Speed test failed after " \o withRetryError(executeSpeedTestError(outcome)).message,
        "SPEED_TEST_RETRY_EXHAUSTED")

\* executeImpl: the ToolResult for an outcome of runSpeedTest
executeImpl(outcome) ==
  IF outcome = "results"
  THEN [success |-> TRUE, data |-> 94000000, error |-> NoError]
  ELSE [success |-> FALSE, data |-> 0,
        error |-> Error("Error", runSpeedTestError(outcome).message,
                        getErrorCode(runSpeedTestError(outcome)))]

\* BaseTool.execute from the ToolResult on
respond(result) ==
  IF ~result.success THEN formatErrorResponse(result.error)
  ELSE formatResponse(result)

\* An invocation: its tool; where BaseTool.execute stands ("admitted": suspended
\* at the await of checkRateLimit, "running": in executeImpl, awaiting the
\* probe, "done": returned its response); whether validateArguments passed;
\* whether the rate limiter was asked, and whether it allowed; whether
\* runSpeedTest was called, and its outcome; the response returned; the
\* timeout of the validated arguments, and the delay in ms of the timer that
\* executeSpeedTest set for the probe (NoValue before the probe); whether the
\* measurement that executeSpeedTest created has been started.
Invocation(tool, phase, valid, asked, allowed, probed, outcome, envelope, timeout) ==
  [tool |-> tool, phase |-> phase, valid |-> valid, asked |-> asked,
   allowed |-> allowed, probed |-> probed, outcome |-> outcome,
   envelope |-> envelope, timeout |-> timeout, deadline |-> NoValue,
   started |-> FALSE]

\* API_TIMEOUTS.SPEED_TEST
SPEED_TEST == 120000

\* BaseTool.extractBaseOptions: options.timeout is args.timeout as given
extractBaseOptions(timeout) == [timeout |-> timeout]

\* CloudflareSpeedTestClient.runSpeedTest / executeSpeedTest: the delay of the
\* timer of the probe; options.timeout is not read
executeSpeedTestDeadline(options) == SPEED_TEST

\* BaseTool.execute up to its first suspension: validateArguments, then
\* checkRateLimit, which calls rateLimiter.checkRateLimit and drops its result
Execute(tool, args) ==
  /\ Len(invocations) < MaxInvocations
  /\ IF ~validateArguments(tool, args)
     THEN /\ invocations' = Append(invocations,
                 Invocation(tool, "done", FALSE, FALSE, FALSE, FALSE, "none",
                            formatErrorResponse(validationError(tool, args)),
                            Undefined))
          /\ UNCHANGED <<now, ticks, zone, configs, backoffConfig, states,
                         backoffStates, focus, theServer, discovery, admitted, last>>
     ELSE /\ CheckRateLimitCall(getOperationType(tool))
          /\ invocations' = Append(invocations,
                 Invocation(tool, "admitted", TRUE, TRUE,
                            last'.result.allowed, FALSE, "none", NoEnvelope,
                            args.timeout))
          /\ UNCHANGED admitted

\* the engine starts a measurement at its construction only with autoStart
DEFAULT_SPEED_TEST_CONFIG == [autoStart |-> FALSE]

\* executeImpl starts and calls cloudflareClient.runSpeedTest; executeSpeedTest
\* constructs the measurement, sets its timer and its callbacks, and calls no
\* method of the measurement
StartProbe(i) ==
  /\ invocations[i].phase = "admitted"
  /\ invocations' = [invocations EXCEPT
        ![i].phase = "running",
        ![i].probed = TRUE,
        ![i].deadline =
           executeSpeedTestDeadline(extractBaseOptions(invocations[i].timeout)),
        ![i].started = DEFAULT_SPEED_TEST_CONFIG.autoStart]
  /\ UNCHANGED <<now, ticks, zone, configs, backoffConfig, states, backoffStates,
                 focus, theServer, discovery, admitted, last>>

\* runSpeedTest settles; executeImpl and execute return the response
FinishProbe(i, outcome) ==
  /\ invocations[i].phase = "running"
  /\ invocations' = [invocations EXCEPT ![i].phase = "done",
                                        ![i].outcome = outcome,
                                        ![i].envelope = respond(executeImpl(outcome))]
  /\ UNCHANGED <<now, ticks, zone, configs, backoffConfig, states, backoffStates,
                 focus, theServer, discovery, admitted, last>>

NextTools ==
  \/ \E d \in Deltas : Tick(d)
  \/ \E tool \in Tools, args \in ArgChoices : Execute(tool, args)
  \/ \E i \in DOMAIN invocations : StartProbe(i)
  \/ \E i \in DOMAIN invocations, outcome \in ProbeOutcomes : FinishProbe(i, outcome)

\* the tools serve both classes: the run has no class of its own
InitTools ==
  /\ Init
  /\ focus = "speed_test"

SpecTools == InitTools /\ [][NextTools]_vars

\* the clock advances of the narrowed runs: one speed_test interval
BucketDeltas == {180000}

\* The tools on a host in UTC with the tight configuration, the clock moving
\* by one step size.  The event loop resumes execute once the await of
\* checkRateLimit has resolved, and runSpeedTest settles: executeSpeedTest
\* settles by onFinish, onError or its timer, and withRetry makes at most
\* maxAttempts attempts.
NextRun ==
  \/ \E d \in BucketDeltas : Tick(d)
  \/ \E tool \in Tools, args \in ArgChoices : Execute(tool, args)
  \/ \E i \in DOMAIN invocations : StartProbe(i)
  \/ \E i \in DOMAIN invocations, outcome \in ProbeOutcomes : FinishProbe(i, outcome)

InitRun ==
  /\ InitTools
  /\ zone = "utc"
  /\ configs = [op \in OperationType |-> getRateLimitConfig(TightEnv, op)]

SpecRun ==
  /\ InitRun
  /\ [][NextRun]_vars
  /\ WF_vars(\E i \in DOMAIN invocations : StartProbe(i))
  /\ WF_vars(\E i \in DOMAIN invocations, outcome \in ProbeOutcomes : FinishProbe(i, outcome))

\* ------------------------------------------------------------ two classes
\* the class that is not the class of the run
Other(op) == CHOOSE other \in OperationType : other # op

\* a tag that is no key of the configuration, passed as OperationType
UnknownOperation == "unknown"

\* the calls that look up the configuration and the bucket of their class
LookupKinds == {"check", "acquire", "status"}

\* checkRateLimit, acquirePermission or getStatus with the unknown tag: the
\* lookup finds nothing and the call throws RateLimitError('Unknown operation
\* type', 0, operationType, 'token_bucket') before it reads or writes a bucket
UnknownCall(kind) ==
  /\ last' = Call(kind, UnknownOperation, NoState, Pass, TRUE, 0, 0, "token_bucket")
  /\ UNCHANGED <<now, ticks, zone, configs, backoffConfig, states, backoffStates,
                 focus, theServer, discovery, admitted, invocations>>

\* the limiter with calls of every kind going to the class of the run, while
\* admissions on the other class use up its bucket
NextBuckets ==
  \/ \E d \in BucketDeltas : Tick(d)
  \/ \E kind \in LookupKinds : UnknownCall(kind)
  \/ CheckRateLimit(Other(focus))
  \/ CheckRateLimit(focus)
  \/ \E random \in RandomChoices : AcquirePermission(focus, random)
  \/ ReleasePermission(focus)
  \/ GetStatus(focus)
  \/ Reset(focus)

\* no day boundary is crossed, and the environment is the one with the small
\* limits
InitBuckets ==
  /\ Init
  /\ zone = "utc"
  /\ configs = [op \in OperationType |-> getRateLimitConfig(TightEnv, op)]

SpecBuckets == InitBuckets /\ [][NextBuckets]_vars

\* ------------------------------------------ src/services/server-discovery.ts
CACHE_TTL_MS == 300000

\* an optional string that is undefined
Absent == "undefined"

CONTINENT_MAP ==
  [continent \in {"north-america", "south-america", "europe", "asia", "africa",
                  "oceania"} |->
     CASE continent = "north-america" -> {"US", "CA", "MX"}
       [] continent = "south-america" -> {"BR", "AR", "CL", "CO", "PE"}
       [] continent = "europe" -> {"GB", "DE", "FR", "IT", "ES", "NL", "PL", "SE", "CH"}
       [] continent = "asia" -> {"CN", "JP", "IN", "KR", "SG", "HK", "TW", "TH", "MY"}
       [] continent = "africa" -> {"ZA", "EG", "NG", "KE", "MA"}
       [] continent = "oceania" -> {"AU", "NZ"}]

\* the country codes of the model are in upper case already
getContinentFromCountry(countryCode) ==
  IF \E continent \in DOMAIN CONTINENT_MAP : countryCode \in CONTINENT_MAP[continent]
  THEN CHOOSE continent \in DOMAIN CONTINENT_MAP : countryCode \in CONTINENT_MAP[continent]
  ELSE Absent

\* A ServerLocation as parseServerLocations builds it; latitude and longitude
\* are argument values (Undefined or a number of degrees).
ServerLocation(name, country, region, latitude, longitude) ==
  [name |-> name, country |-> country, region |-> region,
   latitude |-> latitude, longitude |-> longitude]

\* What client.discoverServers gives: a failure, or the locations of the
\* response.  The locations of the model lie on one meridian; among them are
\* one on the equator (in a country CONTINENT_MAP does not list), one whose
\* latitude is out of range and one without coordinates.
Upstreams ==
  {[ok |-> FALSE, locations |-> <<>>],
   [ok |-> TRUE, locations |-> <<ServerLocation("LAX", "US", "CA", NumberV(34), NumberV(10))>>],
   [ok |-> TRUE,
    locations |->
      <<ServerLocation("JFK", "US", "NY", NumberV(41), NumberV(10)),
        ServerLocation("LAX", "US", "CA", NumberV(34), NumberV(10)),
        ServerLocation("NRT", "JP", "Chiba", Undefined, Undefined),
        ServerLocation("SFO", "US", "CA", NumberV(38), NumberV(10)),
        ServerLocation("LHR", "GB", "England", NumberV(95), NumberV(10)),
        ServerLocation("UIO", "EC", "Pichincha", NumberV(0), NumberV(10)),
        ServerLocation("EWR", "US", "NJ", NumberV(40), NumberV(10))>>]}

\* ServerDiscoveryService.fetchServers on the locations of a response
fetchServers(locations) ==
  [i \in DOMAIN locations |->
     [name |-> locations[i].name, country |-> locations[i].country,
      region |-> locations[i].region, latitude |-> locations[i].latitude,
      longitude |-> locations[i].longitude,
      continent |-> IF locations[i].country # "" /\ locations[i].country # Absent
                    THEN getContinentFromCountry(locations[i].country)
                    ELSE Absent,
      distanceKm |-> NoValue]]

\* R * pi / 180 in metres: the length of one degree of a great circle
MetresPerDegree == 111195

\* calculateDistance in metres for two points of one meridian, where the
\* haversine formula gives R times the difference of the latitudes in radians
calculateDistance(from, to) ==
  MetresPerDegree * (IF to.latitude >= from.latitude
                     THEN to.latitude - from.latitude
                     ELSE from.latitude - to.latitude)

isValidCoordinate(coord) ==
  /\ coord.latitude >= -90
  /\ coord.latitude <= 90
  /\ coord.longitude >= -180
  /\ coord.longitude <= 180

\* filtered.sort of filterServers on servers that all have a distance
RECURSIVE sortByDistance(_)
sortByDistance(servers) ==
  IF servers = <<>> THEN <<>>
  ELSE LET a == Head(servers)
           rest == sortByDistance(Tail(servers))
           sooner(b) == b.distanceKm - a.distanceKm < 0
           later(b) == ~sooner(b)
       IN  SelectSeq(rest, sooner) \o <<a>> \o SelectSeq(rest, later)

\* a filter that looks at the country alone
filterServersByCountry(servers, filter, userLocation) ==
  LET kept(server) ==
        filter.given /\ filter.country # Absent /\ filter.country # "" =>
          server.country = filter.country
  IN  SelectSeq(servers, kept)

\* ServerDiscoveryService.filterServers; the fields of a filter are strings
\* (Absent when undefined) and maxDistance in km (NoValue when undefined),
\* those of a user location argument values; distanceKm is in metres
filterServers(servers, filter, userLocation) ==
  LET truthy(v) == v.type = "number" /\ v.n # 0
      set(str) == str # Absent /\ str # ""
      located == userLocation.given /\ truthy(userLocation.latitude)
                   /\ truthy(userLocation.longitude)
      measured ==
        [i \in DOMAIN servers |->
           IF located /\ truthy(servers[i].latitude) /\ truthy(servers[i].longitude)
           THEN [servers[i] EXCEPT !.distanceKm =
                   calculateDistance(
                     [latitude |-> userLocation.latitude.n,
                      longitude |-> userLocation.longitude.n],
                     [latitude |-> servers[i].latitude.n,
                      longitude |-> servers[i].longitude.n])]
           ELSE servers[i]]
      named(server) == set(filter.name) => server.name = filter.name
      regional(server) ==
        /\ set(filter.continent) => server.continent = filter.continent
        /\ set(filter.country) => server.country = filter.country
        /\ set(filter.region) => server.region = filter.region
      near(server) ==
        filter.maxDistance # NoValue /\ userLocation.given =>
          server.distanceKm = NoValue \/ server.distanceKm <= filter.maxDistance * 1000
      kept(server) == filter.given => named(server) /\ regional(server) /\ near(server)
      filtered == SelectSeq(measured, kept)
      withDistance(server) == server.distanceKm # NoValue
      without(server) == server.distanceKm = NoValue
  IN  IF userLocation.given
      THEN sortByDistance(SelectSeq(filtered, withDistance)) \o SelectSeq(filtered, without)
      ELSE filtered

isCacheValid(cache, t) ==
  /\ cache # NoCache
  /\ t - cache.timestamp < CACHE_TTL_MS

\* a fetch whose failure empties the cache
cacheAfterFetchCleared(cache, upstream, t) ==
  IF upstream.ok
  THEN [servers |-> fetchServers(upstream.locations), timestamp |-> t]
  ELSE NoCache

\* getServers: this.cache after fetchServers has settled at time t
cacheAfterFetch(cache, upstream, t) ==
  IF upstream.ok
  THEN [servers |-> fetchServers(upstream.locations), timestamp |-> t]
  ELSE cache

ServerFilter(name, continent, country, region, maxDistance) ==
  [given |-> TRUE, name |-> name, continent |-> continent, country |-> country,
   region |-> region, maxDistance |-> maxDistance]

\* the filters of the model
Filters ==
  {NoArgument,
   ServerFilter(Absent, Absent, "US", "CA", NoValue),
   ServerFilter("LAX", Absent, "UK", Absent, NoValue),
   ServerFilter(Absent, "asia", Absent, Absent, NoValue),
   ServerFilter(Absent, Absent, Absent, "", NoValue),
   ServerFilter(Absent, Absent, Absent, Absent, 500)}

Location(latitude, longitude) ==
  [given |-> TRUE, latitude |-> latitude, longitude |-> longitude]

\* the user locations of the model, on the meridian of the servers
UserLocations ==
  {NoArgument,
   Location(Undefined, Undefined),
   Location(NumberV(36), NumberV(10)),
   Location(NumberV(0), NumberV(10)),
   Location(NumberV(-95), NumberV(10))}

\* getServers(filter, userLocation) at time t on the service d, called by
\* kind: by a caller of the listing itself, by the tool, or by getServer,
\* getServersByLocation or getServerStats, which pass no argument.  upstream
\* is what discoverServers gives if asked.  The service after the call.
getServers(d, t, kind, filter, userLocation, upstream) ==
  LET r == checkRateLimit(d.config, d.bucket, initialBackoffState, t)
      fetched == cacheAfterFetch(d.cache, upstream, t)
  IN  IF isCacheValid(d.cache, t)
      THEN [d EXCEPT !.call =
              Lookup(kind, "none", "none", "none",
                     filterServers(d.cache.servers, filter, userLocation),
                     filter, userLocation)]
      ELSE IF ~r.result.allowed
      THEN [d EXCEPT !.bucket = r.state,
                     !.call = Lookup(kind, "denied", "none", "rate limit", <<>>,
                                     filter, userLocation)]
      ELSE IF upstream.ok \/ fetched # NoCache
      THEN [d EXCEPT !.bucket = r.state,
                     !.cache = fetched,
                     !.call = Lookup(kind, "allowed",
                                     IF upstream.ok THEN "ok" ELSE "failed", "none",
                                     filterServers(fetched.servers, filter, userLocation),
                                     filter, userLocation)]
      ELSE [d EXCEPT !.bucket = r.state,
                     !.cache = fetched,
                     !.call = Lookup(kind, "allowed", "failed", "discovery", <<>>,
                                     filter, userLocation)]

GetServers(kind, filter, userLocation, upstream) ==
  /\ discovery' = getServers(discovery, now, kind, filter, userLocation, upstream)
  /\ UNCHANGED <<now, ticks, zone, configs, backoffConfig, states, backoffStates,
                 focus, theServer, admitted, last, invocations>>

\* ServerInfoTool.formatResponse for a successful result: the text of the
\* response, with the name of each server for its line
formatServerInfoResponse(servers, filterApplied) ==
  LET RECURSIVE lines(_)
      lines(i) ==
        IF i > Len(servers) THEN ""
        ELSE (IF i = 1 THEN "\n\n" ELSE "\n") \o ToString(i) \o ". "
               \o servers[i].name \o lines(i + 1)
  IN  Envelope(TRUE, FALSE, NoCode,
               "Found " \o ToString(Len(servers)) \o " servers"
                 \o (IF filterApplied THEN " (filtered)" ELSE "") \o lines(1))

\* BaseTool.execute of get_server_info with a continent, country or region
\* (so without the statistics, and without includeDistance and maxDistance):
\* checkRateLimit, whose result is dropped, then executeImpl, which calls
\* getServers, and the formatting of the response
ServerInfoExecute(filter, upstream) ==
  LET r == checkRateLimit(discovery.config, discovery.bucket, initialBackoffState, now)
      d == getServers([discovery EXCEPT !.bucket = r.state], now, "tool",
                      [filter EXCEPT !.name = Absent], NoArgument, upstream)
      regional == {filter.continent, filter.country, filter.region} \ {Absent, ""} # {}
  IN  /\ filter.given
      /\ filter.maxDistance = NoValue
      /\ regional
      /\ discovery' =
           [d EXCEPT !.response =
              IF d.call.error = "none"
              THEN formatServerInfoResponse(
                     SubSeq(d.call.servers, 1, Min(20, Len(d.call.servers))),
                     regional)
              ELSE formatErrorResponse(Error("Error", "Server discovery failed",
                                             "SERVER_INFO_ERROR"))]
      /\ UNCHANGED <<now, ticks, zone, configs, backoffConfig, states, backoffStates,
                     focus, theServer, admitted, last, invocations>>

\* clearCache()
ClearCache ==
  /\ discovery' = [discovery EXCEPT !.cache = NoCache,
                                    !.call = Lookup("clear", "none", "none", "none", <<>>,
                                                    NoArgument, NoArgument)]
  /\ UNCHANGED <<now, ticks, zone, configs, backoffConfig, states, backoffStates,
                 focus, theServer, admitted, last, invocations>>

\* the clock advances of the runs of the service: half the time to live
CatalogDeltas == {150000}

NextCatalog ==
  \/ \E d \in CatalogDeltas : Tick(d)
  \/ \E filter \in Filters, userLocation \in UserLocations, upstream \in Upstreams :
       GetServers("list", filter, userLocation, upstream)
  \/ \E kind \in {"get", "byLocation", "stats"}, upstream \in Upstreams :
       GetServers(kind, NoArgument, NoArgument, upstream)
  \/ \E filter \in Filters, upstream \in Upstreams : ServerInfoExecute(filter, upstream)
  \/ ClearCache

\* the service on a host in UTC with the tight configuration
InitCatalog ==
  /\ InitRun
  /\ discovery.config.maxBucketSize = 1

SpecCatalog == InitCatalog /\ [][NextCatalog]_vars

\* ------------------------------------------------------------------- server
\* The SpeedCloudflareServer.  theServer.next is the handler the loop of stop()
\* is at (0 outside the loop), theServer.running the handlers called and not yet
\* settled, theServer.ran the handlers settled so far with how they settled.
\* theServer.atStop records what the run observed when stop() set isShuttingDown:
\* the number of registered handlers, the invocations in flight, and the clock.

\* the shutdown handlers registered in one run
MaxHandlers == 2

HandlerOutcomes == {"resolves", "rejects"}

\* new StdioServerTransport(), mcpServer.connect(transport)
start ==
  /\ theServer.transport = "null"
  /\ theServer' = [theServer EXCEPT !.transport = "open", !.isConnected = TRUE]
  /\ UNCHANGED <<now, ticks, zone, configs, backoffConfig, states, backoffStates,
                 focus, admitted, last, invocations, discovery>>

addShutdownHandler ==
  /\ Len(theServer.shutdownHandlers) < MaxHandlers
  /\ theServer' = [theServer EXCEPT !.shutdownHandlers =
                                 Append(@, Len(theServer.shutdownHandlers) + 1)]
  /\ UNCHANGED <<now, ticks, zone, configs, backoffConfig, states, backoffStates,
                 focus, admitted, last, invocations, discovery>>

\* stop() from the head of its loop to its next await: the next handler is
\* called and awaited, or the loop is over, the transport is closed and
\* dropped and isConnected is cleared
runHandlers(s) ==
  IF s.next <= Len(s.shutdownHandlers)
  THEN [s EXCEPT !.running = @ \cup {s.shutdownHandlers[s.next]}]
  ELSE [s EXCEPT !.next = 0, !.transport = "null", !.isConnected = FALSE]

\* a loop that a rejected handler leaves for the outer catch of stop()
handlerSettledRethrown(s, outcome) ==
  LET settled == [s EXCEPT !.running = @ \ {s.shutdownHandlers[s.next]},
                           !.ran = Append(@, [handler |-> s.shutdownHandlers[s.next],
                                              outcome |-> outcome])]
  IN  IF outcome = "rejects"
      THEN [settled EXCEPT !.next = 0]
      ELSE runHandlers([settled EXCEPT !.next = @ + 1])

\* the awaited handler settles: a rejection is caught and logged inside the
\* loop, and the loop goes on either way
handlerSettled(s, outcome) ==
  runHandlers([s EXCEPT !.running = @ \ {s.shutdownHandlers[s.next]},
                        !.ran = Append(@, [handler |-> s.shutdownHandlers[s.next],
                                           outcome |-> outcome]),
                        !.next = @ + 1])

\* stop(): returns at once while a shutdown is in progress or over
stop ==
  /\ theServer' =
       IF theServer.isShuttingDown
       THEN theServer
       ELSE runHandlers([theServer EXCEPT
              !.isShuttingDown = TRUE,
              !.next = 1,
              !.atStop = [handlers |-> Len(theServer.shutdownHandlers),
                          inFlight |-> {i \in DOMAIN invocations :
                                          invocations[i].phase # "done"},
                          time |-> now]])
  /\ UNCHANGED <<now, ticks, zone, configs, backoffConfig, states, backoffStates,
                 focus, admitted, last, invocations, discovery>>

HandlerSettles(outcome) ==
  /\ theServer.running # {}
  /\ theServer' = handlerSettled(theServer, outcome)
  /\ UNCHANGED <<now, ticks, zone, configs, backoffConfig, states, backoffStates,
                 focus, admitted, last, invocations, discovery>>

\* The server with its tools on a host in UTC with the tight configuration.
\* A tool call reaches the callback of setupToolHandlers while the transport
\* is connected; the callback calls tool.execute whatever the server state.
\* The calls are run_speed_test without arguments.
\* The clock stands still: stop() reads no clock and sets no timer.
NextServer ==
  \/ start
  \/ addShutdownHandler
  \/ stop
  \/ \E outcome \in HandlerOutcomes : HandlerSettles(outcome)
  \/ /\ theServer.transport = "open"
     /\ Execute("run_speed_test", Args(Undefined, Undefined, Undefined, Undefined))
  \/ \E i \in DOMAIN invocations : StartProbe(i)
  \/ \E i \in DOMAIN invocations, outcome \in ProbeOutcomes : FinishProbe(i, outcome)

\* The event loop resumes stop() when the handler it awaits has settled.
SpecServer ==
  /\ InitRun
  /\ [][NextServer]_vars
  /\ WF_vars(\E outcome \in HandlerOutcomes : HandlerSettles(outcome))

\* ------------------------------------------------------------------- claims
Buckets == OperationType

IsAdmission == last.kind \in {"check", "acquire"}

\* C1: in every reachable state of any interleaving of checkRateLimit,
\* acquirePermission, releasePermission, getStatus, reset and clock advances,
\* every bucket has 0 <= tokens <= maxBucketSize, 0 <= concurrentRequests <=
\* maxConcurrentRequests and 0 <= dailyRequestCount <= maxDailyRequests, and a
\* release on a bucket whose concurrentRequests is 0 leaves it at 0.
C1_BucketBounds ==
  /\ \A op \in Buckets :
       /\ 0 <= states[op].tokens
       /\ states[op].tokens <= configs[op].maxBucketSize
       /\ 0 <= states[op].concurrentRequests
       /\ states[op].concurrentRequests <= configs[op].maxConcurrentRequests
       /\ 0 <= states[op].dailyRequestCount
       /\ states[op].dailyRequestCount <= configs[op].maxDailyRequests
  /\ (last.kind = "release" /\ last.touched.concurrentRequests = 0)
       => states[last.op].concurrentRequests = 0

\* a release on a bucket with no permit held, after the clock moved and a
\* refill brought the bucket back to its ceiling
C1_Witness ==
  /\ last.kind = "release"
  /\ last.touched.concurrentRequests = 0
  /\ ticks > 0
  /\ states[last.op].lastRefill > 0
  /\ states[last.op].tokens = configs[last.op].maxBucketSize

InFlight(op) ==
  {i \in DOMAIN invocations :
     /\ getOperationType(invocations[i].tool) = op
     /\ invocations[i].phase \in {"admitted", "running"}}

\* C2: at every point of any interleaving of tool invocations,
\* concurrentRequests(op) is the number of invocations of class op that were
\* admitted and have not finished; so that number never exceeds
\* maxConcurrentRequests, and with no invocation in flight the count is 0.
C2_ConcurrentCountsInFlight ==
  \A op \in Buckets :
    /\ states[op].concurrentRequests = Cardinality(InFlight(op))
    /\ Cardinality(InFlight(op)) <= configs[op].maxConcurrentRequests
    /\ InFlight(op) = {} => states[op].concurrentRequests = 0

\* C3: the phases of every tool invocation run in the order validate, admit,
\* run: the rate limiter is asked only after validation passed, and the probe
\* is invoked only if the rate limiter allowed the admission.
C3_ValidateAdmitRun ==
  \A i \in DOMAIN invocations :
    /\ invocations[i].asked => invocations[i].valid
    /\ invocations[i].probed => (invocations[i].asked /\ invocations[i].allowed)

CeilDiv(a, b) == (a + b - 1) \div b

\* C4: on a bucket that starts full, the allowed admissions whose times fall
\* in any window of length W number at most
\* ceil(W / intervalMs) * tokensPerInterval + maxBucketSize.  The admissions of
\* a window are a run i..j of the record, and the shortest window that holds
\* them has W = admitted[j] - admitted[i].
C4_WindowBound ==
  \A op \in Buckets :
    \A i \in 1..Len(admitted[op]) :
      \A j \in i..Len(admitted[op]) :
        j - i + 1 <=
          CeilDiv(admitted[op][j] - admitted[op][i], configs[op].intervalMs)
            * configs[op].tokensPerInterval
          + configs[op].maxBucketSize

ConcurrentGateDenies(op, state) ==
  state.concurrentRequests >= configs[op].maxConcurrentRequests

DailyGateDenies(op, state) ==
  state.dailyRequestCount >= configs[op].maxDailyRequests

TokenGateDenies(state) == state.tokens < 1

\* C5: checkRateLimit evaluates the gates in the order concurrent, daily,
\* token, and the first that denies gives the reason: where the concurrent gate
\* denies the denial is the concurrent one whatever the daily count and tokens,
\* and where it passes and the daily gate denies the denial is the daily one
\* whatever the tokens.
C5_GateOrder ==
  IsAdmission =>
    /\ ConcurrentGateDenies(last.op, last.touched) =>
         /\ ~last.result.allowed
         /\ last.result.reason = ConcurrentReason
    /\ (~ConcurrentGateDenies(last.op, last.touched)
          /\ DailyGateDenies(last.op, last.touched)) =>
         /\ ~last.result.allowed
         /\ last.result.reason = DailyReason
    /\ (~ConcurrentGateDenies(last.op, last.touched)
          /\ ~DailyGateDenies(last.op, last.touched)
          /\ TokenGateDenies(last.touched)) =>
         /\ ~last.result.allowed
         /\ last.result.reason = TokenReason

\* an admission asked of a bucket on which all three gates deny
C5_Witness ==
  /\ last.kind = "check"
  /\ ConcurrentGateDenies(last.op, last.touched)
  /\ DailyGateDenies(last.op, last.touched)
  /\ TokenGateDenies(last.touched)

C7_AllowedConsumesOne ==
  (IsAdmission /\ last.result.allowed) =>
    /\ states[last.op].tokens = last.touched.tokens - 1
    /\ states[last.op].dailyRequestCount = last.touched.dailyRequestCount + 1
    /\ backoffStates[last.op].consecutiveFailures = 0
    /\ last.result.remainingTokens = states[last.op].tokens
    /\ last.result.dailyRequestsRemaining =
         configs[last.op].maxDailyRequests - states[last.op].dailyRequestCount
    /\ (configs[last.op] = DEFAULT_RATE_LIMITS["speed_test"]
          /\ last.touched.tokens = 2
          /\ last.touched.dailyRequestCount = 0) =>
         /\ last.result.remainingTokens = 1
         /\ last.result.dailyRequestsRemaining = 49

\* the first admission on the full speed_test bucket
C7_Witness ==
  /\ last.kind = "check"
  /\ last.op = "speed_test"
  /\ last.result.allowed
  /\ last.result.remainingTokens = 1
  /\ last.result.dailyRequestsRemaining = 49

DenyingGate(op, state) ==
  IF ConcurrentGateDenies(op, state) THEN "concurrent_limit"
  ELSE IF DailyGateDenies(op, state) THEN "daily_limit"
  ELSE "token_bucket"

\* C8: a denied acquirePermission increments the bucket's consecutiveFailures,
\* leaves concurrentRequests alone and throws a RateLimitError whose reason is
\* the gate that denied and whose waitTimeMs is the larger of the admission's
\* waitTimeMs and the backoff delay; an allowed one increments
\* concurrentRequests by exactly 1.
C8_AcquireOutcome ==
  [][last'.kind = "acquire" =>
       IF last'.thrown
       THEN /\ backoffStates'[last'.op].consecutiveFailures =
                 backoffStates[last'.op].consecutiveFailures + 1
            /\ states'[last'.op].concurrentRequests =
                 states[last'.op].concurrentRequests
            /\ ~last'.result.allowed
            /\ last'.reason = DenyingGate(last'.op, last'.touched)
            /\ last'.waitTimeMs = Max(last'.result.waitTimeMs, last'.backoffDelay)
       ELSE /\ last'.result.allowed
            /\ states'[last'.op].concurrentRequests =
                 states[last'.op].concurrentRequests + 1]_vars

\* a concurrent denial whose backoff delay exceeds the gate's own hint
C8_Witness ==
  /\ last.kind = "acquire"
  /\ last.thrown
  /\ last.reason = "concurrent_limit"
  /\ last.waitTimeMs > last.result.waitTimeMs

\* C9: with jitterFactor = 0 the backoff delay of the n-th consecutive denied
\* acquire since the last successful admission is
\* min(baseDelayMs * backoffMultiplier^(n-1), maxDelayMs), so the first denial
\* yields baseDelayMs.
C9_BackoffFromBase ==
  (last.kind = "acquire" /\ last.thrown /\ backoffConfig.jitterFactor = 0) =>
    last.backoffDelay =
      Min(Scaled(backoffConfig.baseDelayMs, backoffConfig.backoffMultiplier,
                 backoffStates[last.op].consecutiveFailures - 1),
          backoffConfig.maxDelayMs)

FreshSpeedTest(tokens, count) ==
  [tokens |-> tokens, lastRefill |-> 0, dailyRequestCount |-> count,
   dailyResetTime |-> DayMs, concurrentRequests |-> 0]

\* the admission steps of scenario E1, on the speed_test bucket created at 0
\* with its compiled-in configuration; left is the token count the admission at
\* 180000 reports
E1(left) ==
  (/\ last'.kind = "check"
   /\ last'.op = "speed_test"
   /\ configs["speed_test"] = DEFAULT_RATE_LIMITS["speed_test"]) =>
    /\ (now = 0 /\ states["speed_test"] = FreshSpeedTest(2, 0)) =>
         (last'.result.allowed /\ last'.result.remainingTokens = 1)
    /\ (now = 0 /\ states["speed_test"] = FreshSpeedTest(1, 1)) =>
         (last'.result.allowed /\ last'.result.remainingTokens = 0)
    /\ (now = 0 /\ states["speed_test"] = FreshSpeedTest(0, 2)) =>
         /\ ~last'.result.allowed
         /\ last'.result.reason = TokenReason
         /\ last'.result.waitTimeMs = 180000
    /\ (now = 180000 /\ states["speed_test"] = FreshSpeedTest(0, 2)) =>
         (last'.result.allowed /\ last'.result.remainingTokens = left)

\* C10, as amended: in scenario E1 two admissions at t = 0 are allowed and
\* leave 1 then 0 tokens, a third at t = 0 is denied for the token bucket with
\* waitTimeMs = 180000, and an admission at t = 180000 is allowed: the refill
\* brings the bucket to 1 token and the admission takes it, leaving 0.
C10_ScenarioE1 == [][E1(0)]_vars

\* C10 as stated: the admission at t = 180000 is allowed with tokens = 1
C10_ScenarioE1_AsStated == [][E1(1)]_vars

\* the admission at t = 180000 of scenario E1 has happened
C10_Witness ==
  /\ last.kind = "check"
  /\ last.op = "speed_test"
  /\ last.at = 180000
  /\ configs["speed_test"] = DEFAULT_RATE_LIMITS["speed_test"]
  /\ last.result.allowed
  /\ states["speed_test"] =
       [tokens |-> 0, lastRefill |-> 180000, dailyRequestCount |-> 3,
        dailyResetTime |-> DayMs, concurrentRequests |-> 0]

\* the admissions allowed on a bucket since its last daily reset, as a call at
\* the current time finds them: none if the call itself applies the reset
SinceDailyReset(op) ==
  IF now >= states[op].dailyResetTime THEN 0 ELSE states[op].dailyRequestCount

\* C11: between two consecutive daily resets of a bucket at most
\* maxDailyRequests admissions are allowed, whatever the tokens:
\* dailyRequestCount is the number of admissions allowed since the last daily
\* reset, an admission is allowed only while that number is below
\* maxDailyRequests, and one that finds it at maxDailyRequests with the
\* concurrent gate passing is denied for the daily limit, with
\* dailyRequestsRemaining = 0 and waitTimeMs = dailyResetTime - now, also when
\* tokens are available.
C11_DailyCap ==
  [][/\ last'.kind \in {"check", "acquire"} =>
          LET op == last'.op
              since == SinceDailyReset(op)
          IN  /\ last'.touched.dailyRequestCount = since
              /\ since <= configs[op].maxDailyRequests
              /\ last'.result.allowed =>
                   /\ since < configs[op].maxDailyRequests
                   /\ states'[op].dailyRequestCount = since + 1
              /\ ~last'.result.allowed =>
                   states'[op].dailyRequestCount = since
              /\ (since = configs[op].maxDailyRequests
                    /\ ~ConcurrentGateDenies(op, last'.touched)) =>
                   /\ ~last'.result.allowed
                   /\ last'.result.reason = DailyReason
                   /\ last'.result.dailyRequestsRemaining = 0
                   /\ last'.result.waitTimeMs =
                        last'.touched.dailyResetTime - now
     /\ last'.kind = "status" =>
          states'[last'.op].dailyRequestCount = SinceDailyReset(last'.op)
     /\ last'.kind = "release" =>
          states'[last'.op].dailyRequestCount =
            states[last'.op].dailyRequestCount]_vars

\* the quota is used up, the clock moved, the bucket holds tokens again, and
\* an acquire is denied for the daily limit
C11_Witness ==
  /\ last.kind = "acquire"
  /\ last.thrown
  /\ last.reason = "daily_limit"
  /\ last.touched.tokens >= 1
  /\ last.touched.dailyRequestCount = configs[last.op].maxDailyRequests
  /\ last.at > 0

\* the start of the next local day after time t: the first local midnight
\* later than t
StartOfNextLocalDay(t) ==
  LET k == CHOOSE k \in 1..((t \div DayMs) + 1) :
             /\ LocalMidnight(zone, k) > t
             /\ LocalMidnight(zone, k - 1) <= t
  IN  LocalMidnight(zone, k)

\* C12: a state touch (checkRateLimit, acquirePermission, getStatus) at a time
\* now >= dailyResetTime zeroes dailyRequestCount and moves dailyResetTime to
\* the start of the next local day after now, so that dailyResetTime > now
\* after the touch, however many day boundaries went by; a touch at
\* now < dailyResetTime resets nothing; and getStatus at such a reset reports
\* dailyRequestsRemaining = maxDailyRequests.
C12_DailyReset ==
  [][last'.kind \in {"check", "acquire", "status"} =>
       LET op == last'.op
           before == states[op]
           touched == last'.touched
       IN  IF now >= before.dailyResetTime
           THEN /\ touched.dailyRequestCount = 0
                /\ touched.dailyResetTime = StartOfNextLocalDay(now)
                /\ touched.dailyResetTime > now
                /\ last'.kind = "status" =>
                     last'.result.dailyRequestsRemaining =
                       configs[op].maxDailyRequests
           ELSE /\ touched.dailyRequestCount = before.dailyRequestCount
                /\ touched.dailyResetTime = before.dailyResetTime]_vars

\* the results of two checkRateLimit(op) calls made one after the other at
\* time t on a bucket in the given state
LaterChecks(op, state, backoff, t) ==
  LET first == checkRateLimit(configs[op], state, backoff, t)
      second == checkRateLimit(configs[op], first.state, first.backoff, t)
  IN  <<first.result, second.result>>

\* C13: getStatus(op) changes nothing: the bucket (tokens, lastRefill,
\* dailyRequestCount, dailyResetTime, concurrentRequests) and its backoff state
\* are after the call what they were before it, and the admissions made later
\* get the results they would have got without the call.
C13_StatusChangesNothing ==
  [][last'.kind = "status" =>
       /\ states' = states
       /\ backoffStates' = backoffStates
       /\ \A d \in Deltas :
            LaterChecks(last'.op, states'[last'.op],
                        backoffStates'[last'.op], now + d)
              = LaterChecks(last'.op, states[last'.op],
                            backoffStates[last'.op], now + d)]_vars

\* a bucket in its starting state at the current time
InStartingState(op) ==
  /\ states[op].tokens = configs[op].maxBucketSize
  /\ states[op].dailyRequestCount = 0
  /\ states[op].concurrentRequests = 0
  /\ states[op].lastRefill = now
  /\ backoffStates[op].consecutiveFailures = 0

\* C14: after reset(op), whatever came before, bucket op is in its starting
\* state: full, with dailyRequestCount, concurrentRequests and
\* consecutiveFailures 0 and lastRefill = now; after reset() every bucket is.
C14_ResetRestarts ==
  /\ last.kind = "reset" => InStartingState(last.op)
  /\ last.kind = "resetAll" => \A op \in Buckets : InStartingState(op)

\* a reset of a bucket that was, at a later time than its creation, short of
\* tokens, with a permit held and part of the day's quota used
C14_Witness ==
  /\ last.kind = "reset"
  /\ last.at > 0
  /\ last.touched.tokens < configs[last.op].maxBucketSize
  /\ last.touched.concurrentRequests > 0
  /\ last.touched.dailyRequestCount > 0
  /\ last.touched.lastRefill < last.at

\* C15: buckets are independent: checkRateLimit, acquirePermission,
\* releasePermission, getStatus and reset(op) on one class leave the bucket and
\* the backoff state of every other class as they were, under any interleaving.
C15_BucketsIndependent ==
  [][last'.kind \in {"check", "acquire", "release", "status", "reset"} =>
       \A other \in Buckets \ {last'.op} :
         /\ states'[other] = states[other]
         /\ backoffStates'[other] = backoffStates[other]]_vars

\* a reset of a used bucket at a later time than its creation, while the
\* bucket of the other class is used as well
C15_Witness ==
  /\ last.kind = "reset"
  /\ last.at > 0
  /\ last.touched.tokens < configs[last.op].maxBucketSize
  /\ states[Other(last.op)].dailyRequestCount > 0
  /\ states[Other(last.op)].tokens < configs[Other(last.op)].maxBucketSize

\* C16: checkRateLimit, acquirePermission and getStatus called with a tag that
\* is no operation class fail with an error that is not the error of a
\* rate-limit denial, which carries a reason and a wait time, and they leave
\* every bucket and backoff state as it was.
C16_UnknownOperation ==
  [][(last'.kind \in LookupKinds /\ last'.op \notin OperationType) =>
       /\ last'.thrown
       /\ last'.error # "RateLimitError"
       /\ states' = states
       /\ backoffStates' = backoffStates]_vars

\* what went wrong in an invocation that has returned: validateArguments
\* threw, or runSpeedTest did not give results
Failed(inv) == ~inv.valid \/ inv.outcome \in {"failure", "timeout"}

Returned(inv) == inv.phase = "done"

\* C17: every invocation of a tool ends by returning one response and
\* throws nothing: once started it reaches the return of execute, the
\* response it returned is never replaced, a failure in validation or in the
\* run of the probe gives success = false with isError = true, and isError is
\* set exactly when success is false.
C17_OneEnvelope ==
  /\ [](\A i \in DOMAIN invocations :
          LET inv == invocations[i] IN
            /\ Returned(inv) <=> inv.envelope # NoEnvelope
            /\ Returned(inv) => (inv.envelope.isError <=> ~inv.envelope.success)
            /\ Returned(inv) /\ Failed(inv) =>
                 ~inv.envelope.success /\ inv.envelope.isError)
  /\ [][\A i \in DOMAIN invocations :
          Returned(invocations[i]) => invocations'[i] = invocations[i]]_vars
  /\ \A i \in 1..MaxInvocations :
       (Len(invocations) >= i) ~> (Len(invocations) >= i /\ Returned(invocations[i]))

\* one invocation returned a validation failure, another a failure of the probe
C17_Witness ==
  \E i, j \in DOMAIN invocations :
    /\ Returned(invocations[i]) /\ ~invocations[i].valid
    /\ invocations[i].envelope.isError /\ ~invocations[i].envelope.success
    /\ Returned(invocations[j]) /\ invocations[j].outcome = "failure"
    /\ invocations[j].envelope.isError /\ ~invocations[j].envelope.success

\* the rate limiter denied the admission of the invocation
Denied(inv) == inv.asked /\ ~inv.allowed

\* C18: an invocation whose admission the rate limiter denied returns a
\* response with success = false and error.code = RATE_LIMIT_ERROR (carrying
\* the wait time and the reason of the denial).
C18_DeniedEnvelope ==
  \A i \in DOMAIN invocations :
    Returned(invocations[i]) /\ Denied(invocations[i]) =>
      /\ ~invocations[i].envelope.success
      /\ invocations[i].envelope.code = "RATE_LIMIT_ERROR"

\* C19: an invocation whose arguments break the schema or the documented
\* ranges of its tool is rejected before the probe runs and returns a
\* response with error.code = VALIDATION_ERROR.
C19_ValidationEnvelope ==
  \A i \in DOMAIN invocations :
    Returned(invocations[i]) /\ ~invocations[i].valid =>
      /\ ~invocations[i].probed
      /\ invocations[i].envelope.code = "VALIDATION_ERROR"

\* C20: when the deadline of the probe fires before the engine completes,
\* the run of the probe fails with a timeout error that differs from the
\* error of a failed execution, and the invocation returns a response with
\* success = false and error.code = TIMEOUT_ERROR.
C20_TimeoutEnvelope ==
  \A i \in DOMAIN invocations :
    Returned(invocations[i]) /\ invocations[i].outcome = "timeout" =>
      /\ runSpeedTestError("timeout").code # runSpeedTestError("failure").code
      /\ ~invocations[i].envelope.success
      /\ invocations[i].envelope.code = "TIMEOUT_ERROR"

\* C21: the deadline of the probe of an invocation is timeout * 1000 ms when
\* the validated arguments hold a timeout (in seconds), and the default of
\* the class otherwise.
C21_ProbeDeadline ==
  \A i \in DOMAIN invocations :
    invocations[i].probed =>
      invocations[i].deadline =
        IF invocations[i].timeout.type = "number"
        THEN invocations[i].timeout.n * 1000
        ELSE SPEED_TEST

\* a step that is a call of getServers, by whichever method
IsLookup ==
  /\ discovery' # discovery
  /\ discovery'.call.kind \in {"list", "get", "byLocation", "stats"}
  /\ discovery'.response = discovery.response

\* C23: while the cache is populated and its age is at most CACHE_TTL_MS
\* (300000 ms itself included), list, get, byLocation and stats are answered
\* from the cache, with no upstream fetch and no token of the rate limiter
\* taken; once the age exceeds it, the next call attempts a fetch.
C23_CacheServes ==
  [][IsLookup /\ discovery.cache # NoCache =>
       IF now - discovery.cache.timestamp <= CACHE_TTL_MS
       THEN /\ discovery'.call.admission = "none"
            /\ discovery'.call.fetch = "none"
            /\ discovery'.bucket = discovery.bucket
       ELSE discovery'.call.admission # "none"]_vars

\* C24: when an upstream fetch fails and a (stale) cached copy exists, the
\* call returns the filtered stale entries and no error; when none exists the
\* error is propagated; either way the failed fetch leaves the cache as it
\* was: entries and time of the cache are replaced only when a fetch succeeds.
C24_FetchFailure ==
  [][/\ IsLookup /\ discovery'.call.fetch = "failed" =>
          /\ discovery'.cache = discovery.cache
          /\ IF discovery.cache # NoCache
             THEN /\ discovery'.call.error = "none"
                  /\ discovery'.call.servers =
                       filterServers(discovery.cache.servers, discovery'.call.filter,
                                     discovery'.call.userLocation)
             ELSE discovery'.call.error = "discovery"
     /\ discovery'.cache # discovery.cache =>
          discovery'.call.fetch = "ok" \/ discovery'.call.kind = "clear"]_vars

\* a failed fetch was answered from a stale cache that holds servers
C24_Witness ==
  /\ discovery.call.fetch = "failed"
  /\ discovery.call.error = "none"
  /\ now - discovery.cache.timestamp >= CACHE_TTL_MS
  /\ Len(discovery.call.servers) > 0

\* C25: every upstream fetch comes, within the same call, after one allowed
\* admission on the connection_info class, which takes one token; when the
\* admission is denied nothing is fetched and the call fails with the error
\* of the discovery.
C25_FetchAdmitted ==
  [][IsLookup =>
       LET touched == touch(discovery.config, discovery.bucket, now)
       IN  /\ discovery'.call.fetch # "none" =>
                /\ discovery'.call.admission = "allowed"
                /\ touched.tokens >= 1
                /\ discovery'.bucket.tokens = touched.tokens - 1
                /\ discovery'.bucket.dailyRequestCount = touched.dailyRequestCount + 1
           /\ discovery'.call.admission = "denied" =>
                /\ discovery'.call.fetch = "none"
                /\ discovery'.call.error = "rate limit"
                /\ discovery'.cache = discovery.cache
                /\ discovery'.bucket = touched]_vars

\* a call was denied its admission while another had fetched before it
C25_Witness ==
  /\ discovery.call.admission = "denied"
  /\ discovery.call.error = "rate limit"
  /\ discovery.bucket.dailyRequestCount > 0

\* The servers of the last list call are exactly the cached entries that pass
\* the filter of the call, a field of the filter counting as not provided when
\* its value is one of unprovided.
ListedExactly(unprovided) ==
  LET call == discovery.call
      filter == call.filter
      user == call.userLocation
      cached == discovery.cache.servers
      asks(field) == filter.given /\ field \notin unprovided
      fields(e) ==
        /\ asks(filter.name) => e.name = filter.name
        /\ asks(filter.continent) => e.continent # Absent /\ e.continent = filter.continent
        /\ asks(filter.country) => e.country = filter.country
        /\ asks(filter.region) => e.region = filter.region
      limited == filter.given /\ filter.maxDistance # NoValue
      far(e) ==
        /\ limited /\ user.given
        /\ user.latitude.type = "number" /\ user.longitude.type = "number"
        /\ e.latitude.type = "number" /\ e.longitude.type = "number"
        /\ calculateDistance([latitude |-> user.latitude.n, longitude |-> user.longitude.n],
                             [latitude |-> e.latitude.n, longitude |-> e.longitude.n])
             > filter.maxDistance * 1000
      listed(e) == \E i \in DOMAIN call.servers : call.servers[i].name = e.name
  IN  /\ \A i, j \in DOMAIN call.servers :
           call.servers[i].name = call.servers[j].name => i = j
      /\ \A i \in DOMAIN call.servers :
           /\ \E k \in DOMAIN cached :
                [call.servers[i] EXCEPT !.distanceKm = NoValue] = cached[k]
           /\ fields(call.servers[i])
           /\ limited => \/ call.servers[i].distanceKm = NoValue
                         \/ call.servers[i].distanceKm <= filter.maxDistance * 1000
      /\ \A k \in DOMAIN cached :
           ~listed(cached[k]) => ~fields(cached[k]) \/ far(cached[k])

Listed == discovery.call.kind = "list" /\ discovery.call.error = "none"

\* C26: list(filter, userLocation) returns exactly the cached entries for
\* which every provided, non-empty field among name, continent, country and
\* region equals the entry's (the continent being the derived one, an
\* undefined continent never matching) and, when maxDistance is provided,
\* whose distanceKm is undefined or at most maxDistance; of LAX, SFO, JFK and
\* EWR the filter {country US, region CA} gives LAX and SFO, and the filter
\* {name LAX, country UK} gives nothing.
C26_FilterExact ==
  Listed =>
    /\ ListedExactly({Absent, ""})
    /\ discovery.call.filter = ServerFilter("LAX", Absent, "UK", Absent, NoValue) =>
         discovery.call.servers = <<>>
    /\ discovery.call.filter = ServerFilter(Absent, Absent, "US", "CA", NoValue)
         /\ Len(discovery.cache.servers) > 1 =>
         {discovery.call.servers[i].name : i \in DOMAIN discovery.call.servers}
           = {"LAX", "SFO"}

\* C26 as stated: every provided field counts, an empty string too
C26_FilterExact_AsStated == Listed => ListedExactly({Absent})

\* the filter {country US, region CA} was applied to a cache that holds LAX,
\* SFO, JFK and EWR, and gave two servers
C26_Witness ==
  /\ Listed
  /\ discovery.call.filter = ServerFilter(Absent, Absent, "US", "CA", NoValue)
  /\ Len(discovery.cache.servers) > 4
  /\ Len(discovery.call.servers) = 2

\* C27: for a listing whose userLocation holds a latitude and a longitude
\* (any value in range, 0 included), every returned entry that has
\* coordinates (0 included) carries a distanceKm, the returned sequence is in
\* non-decreasing order of distanceKm, and every entry without distanceKm
\* comes after every entry with one.
C27_DistanceOrder ==
  LET user == discovery.call.userLocation
      servers == discovery.call.servers
  IN  Listed /\ user.given
        /\ user.latitude.type = "number" /\ user.longitude.type = "number"
        /\ isValidCoordinate([latitude |-> user.latitude.n,
                              longitude |-> user.longitude.n]) =>
        /\ \A i \in DOMAIN servers :
             servers[i].latitude.type = "number" /\ servers[i].longitude.type = "number" =>
               servers[i].distanceKm # NoValue
        /\ \A i, j \in DOMAIN servers :
             i < j =>
               \/ servers[j].distanceKm = NoValue
               \/ /\ servers[i].distanceKm # NoValue
                  /\ servers[i].distanceKm <= servers[j].distanceKm

\* C28: when distances are asked for and the coordinates of the user or of a
\* server break |lat| <= 90 and |lon| <= 180, the distanceKm of that server
\* stays undefined and no error is raised: a distance is computed from valid
\* coordinates only.
C28_ValidCoordinates ==
  LET user == discovery.call.userLocation
      servers == discovery.call.servers
  IN  discovery.call.kind = "list" /\ user.given
        /\ user.latitude.type = "number" /\ user.longitude.type = "number" =>
        /\ discovery.call.error \in {"none", "rate limit", "discovery"}
        /\ \A i \in DOMAIN servers :
             servers[i].distanceKm # NoValue =>
               /\ isValidCoordinate([latitude |-> user.latitude.n,
                                     longitude |-> user.longitude.n])
               /\ isValidCoordinate([latitude |-> servers[i].latitude.n,
                                     longitude |-> servers[i].longitude.n])

\* C22: for every tool, a successful invocation emits a text block that is
\* the JSON serialization of {success: true, data, executionTime, timestamp},
\* so that parsing the block and serializing it again gives an equivalent
\* value.
C22_EnvelopeJson ==
  LET json(text) ==
        /\ JsonParse(text).ok
        /\ JsonParse(text).value.success
        /\ JsonParse(JsonStringify(JsonParse(text).value)) = JsonParse(text)
  IN  /\ \A i \in DOMAIN invocations :
           Returned(invocations[i]) /\ invocations[i].envelope.success =>
             json(invocations[i].envelope.text)
      /\ discovery.response.success => json(discovery.response.text)

\* C29: on stop() the registered shutdown handlers run one at a time, in
\* registration order, each at most once; a handler that fails prevents no
\* later handler from running nor the transport from being closed afterwards;
\* a stop() issued while a shutdown is in progress runs no handler again.
\* Stated on the run: the handlers settled so far are the first registered
\* ones in their order, at most the handler the loop is at is running, once
\* the loop is over every handler registered when stop() began has run, the
\* step that ends the loop drops the transport, and the loop does end.
C29_ShutdownHandlers ==
  /\ [](/\ \A k \in DOMAIN theServer.ran : theServer.ran[k].handler = k
        /\ Cardinality(theServer.running) <= 1
        /\ theServer.running # {} =>
             /\ theServer.next = Len(theServer.ran) + 1
             /\ theServer.running = {theServer.next}
        /\ theServer.isShuttingDown /\ theServer.next = 0 =>
             Len(theServer.ran) >= theServer.atStop.handlers)
  /\ [][/\ theServer.isShuttingDown /\ theServer'.next = 0
        /\ ~theServer.isShuttingDown \/ theServer.next # 0
        => theServer'.transport = "null" /\ ~theServer'.isConnected]_vars
  /\ [][theServer.isShuttingDown /\ theServer.next = 0 =>
          theServer'.running = {} /\ theServer'.ran = theServer.ran]_vars
  /\ theServer.isShuttingDown ~> (theServer.isShuttingDown /\ theServer.next = 0)

\* a shutdown whose first handler failed, whose second handler ran all the
\* same, and which closed the connected transport
C29_Witness ==
  /\ theServer.isShuttingDown
  /\ theServer.next = 0
  /\ theServer.atStop.handlers = 2
  /\ Len(theServer.ran) = 2
  /\ theServer.ran[1].outcome = "rejects"
  /\ theServer.transport = "null"
  /\ ~theServer.isConnected
  /\ theServer.atStop.inFlight # {}

\* C30: once shutdown has begun no new tool invocation is accepted, and the
\* transport is released only after every invocation that was in flight at
\* the shutdown signal has finished, or after some drain time has passed
\* since the signal.
C30_ShutdownDrains ==
  /\ [][theServer.isShuttingDown => Len(invocations') = Len(invocations)]_vars
  /\ [][theServer.transport = "open" /\ theServer'.transport = "null" =>
          \/ \A i \in theServer'.atStop.inFlight : invocations[i].phase = "done"
          \/ now > theServer'.atStop.time]_vars

\* C31: every state touch of a bucket, with D = now - lastRefill, leaves tokens
\* and lastRefill alone when D < intervalMs, and otherwise, with
\* k = floor(D / intervalMs), adds min(k * tokensPerInterval,
\* maxBucketSize - tokens) tokens and advances lastRefill by k * intervalMs,
\* a full bucket included; after the touch 0 <= now - lastRefill < intervalMs.
C31_TouchRefills ==
  [][last'.kind \in {"check", "acquire", "status"} =>
       LET config == configs[last'.op]
           state == states[last'.op]
           touched == last'.touched
           D == now - state.lastRefill
           k == D \div config.intervalMs
       IN  /\ D < config.intervalMs =>
                /\ touched.tokens = state.tokens
                /\ touched.lastRefill = state.lastRefill
           /\ D >= config.intervalMs =>
                /\ touched.tokens =
                     state.tokens + Min(k * config.tokensPerInterval,
                                        config.maxBucketSize - state.tokens)
                /\ touched.lastRefill = state.lastRefill + k * config.intervalMs
           /\ 0 <= now - touched.lastRefill
           /\ now - touched.lastRefill < config.intervalMs]_vars

\* --------------------------------------------------------------- wall clock
\* getCurrentTimestamp returns Date.now(), the wall clock of the host, which
\* an adjustment of the system time sets back: the reading drops by d.
ClockSetBack(d) ==
  /\ ticks < MaxTicks
  /\ now - d >= 0
  /\ now' = now - d
  /\ ticks' = ticks + 1
  /\ last' = NoCall
  /\ UNCHANGED <<zone, configs, backoffConfig, states, backoffStates, focus,
                 theServer, discovery, admitted, invocations>>

\* the rate limiter on a host whose clock advances and is adjusted
NextWallClock ==
  \/ \E d \in Deltas : Tick(d)
  \/ \E d \in Deltas : ClockSetBack(d)
  \/ CheckRateLimit(focus)
  \/ GetStatus(focus)
  \/ Reset(focus)

SpecWallClock == Init /\ [][NextWallClock]_vars

\* C32: the refill anchor of a bucket never moves backwards and never passes
\* the clock: whatever the operations, lastRefill read later is at least
\* lastRefill read earlier, and lastRefill <= now in every state.
C32_AnchorMonotonic ==
  /\ [][\A op \in OperationType :
          states'[op].lastRefill >= states[op].lastRefill]_vars
  /\ [](\A op \in OperationType : states[op].lastRefill <= now)

\* ------------------------------------------------------------------- client
\* BaseTool.execute of a tool whose executeImpl throws: the arguments pass
\* validation, the rate limiter is asked, and the catch of execute formats the
\* error thrown.  The invocation keeps the error as its field thrown.
ExecuteThrown(tool, error) ==
  /\ Len(invocations) < MaxInvocations
  /\ CheckRateLimitCall(getOperationType(tool))
  /\ invocations' = Append(invocations,
        Invocation(tool, "done", TRUE, TRUE, last'.result.allowed, FALSE,
                   "thrown", formatErrorResponse(error), Undefined)
        @@ [thrown |-> error])
  /\ UNCHANGED admitted

\* API_RETRY_CONFIG
maxAttempts == 3

retryBaseDelayMs == 1000

retryMaxDelayMs == 10000

\* HttpClient.withRetry on an operation whose calls settle as results says
\* (NoError for a call that resolves, its error for a call that rejects): the
\* calls it made, the delays it slept between them, and the error it threw
\* (NoError when it returned the value of the operation)
withRetry(results) ==
  LET isRetryableError(error) ==
        \E code \in {"ECONNRESET", "ETIMEDOUT", "ENOTFOUND", "ECONNREFUSED",
                      "NETWORK_ERROR", "TIMEOUT_ERROR"} :
          Includes(error.message, code) \/ error.code = code
      calculateDelay(attempt) ==
        Min(retryBaseDelayMs * Pow(2, attempt - 1), retryMaxDelayMs)
      leaves(attempt) ==
        \/ results[attempt] = NoError
        \/ attempt = maxAttempts
        \/ ~isRetryableError(results[attempt])
      last_ == CHOOSE attempt \in DOMAIN results :
                 /\ leaves(attempt)
                 /\ \A earlier \in 1..(attempt - 1) : ~leaves(earlier)
  IN  [attempts |-> last_,
       delays |-> [attempt \in 1..(last_ - 1) |-> calculateDelay(attempt)],
       error |-> IF results[last_] = NoError THEN NoError
                 ELSE withRetryError(results[last_])]

\* runSpeedTest settles: withRetry has run executeSpeedTest, whose calls
\* settled as results says; executeImpl and execute return the response.  The
\* invocation keeps the results of the calls made and what withRetry did.
RunSpeedTest(i, results) ==
  /\ invocations[i].phase = "running"
  /\ invocations' = [invocations EXCEPT ![i] =
        LET retry == withRetry(results)
            result ==
              IF retry.error = NoError
              THEN [success |-> TRUE, data |-> 94000000, error |-> NoError]
              ELSE [success |-> FALSE, data |-> 0,
                    error |-> Error("Error",
                                    "Speed test failed after " \o retry.error.message,
                                    "SPEED_TEST_RETRY_EXHAUSTED")]
        IN  [@ EXCEPT !.phase = "done", !.outcome = "retried",
                      !.envelope = respond(result)]
            @@ [calls |-> SubSeq(results, 1, retry.attempts), retry |-> retry]]
  /\ UNCHANGED <<now, ticks, zone, configs, backoffConfig, states, backoffStates,
                 focus, theServer, discovery, admitted, last>>

\* The tools with an executeImpl that throws, and run_speed_test on an engine
\* whose runs finish, time out, or fail with the error text ECONNRESET.  The
\* errors thrown are Error objects without a code, with the empty code and
\* with a code of their own, and their messages hold none, one or two of the
\* words getErrorCode looks for.
NextClient ==
  \/ \E tool \in Tools,
        code \in {NoCode, "", "ECONNRESET"},
        message \in {"connection timeout", "invalid rate limit",
                     "network validation failed", "Timeout", "socket hang up"} :
       ExecuteThrown(tool, Error("Error", message, code))
  \/ Execute("run_speed_test", Args(Undefined, Undefined, Undefined, Undefined))
  \/ \E i \in DOMAIN invocations : StartProbe(i)
  \/ \E i \in DOMAIN invocations,
        results \in [1..(maxAttempts + 1) ->
                       {NoError,
                        executeSpeedTestError("timeout"),
                        Error("SpeedTestError",
                              "Speed test execution failed: ECONNRESET",
                              "SPEED_TEST_EXECUTION_ERROR")}] :
       RunSpeedTest(i, results)

SpecClient == InitRun /\ [][NextClient]_vars

\* C33: the code of an error envelope is the string code of the error if it
\* has one; otherwise the code of the first rule, in the order timeout, rate
\* limit, validation or invalid, network or connection, whose word the message
\* contains; otherwise EXECUTION_ERROR.  A code of the error is never replaced
\* by a code derived from the message.
C33_CodePriority ==
  \A i \in DOMAIN invocations :
    invocations[i].outcome = "thrown" =>
      LET error == invocations[i].thrown
          rules == <<[words |-> {"timeout"}, code |-> "TIMEOUT_ERROR"],
                     [words |-> {"rate limit"}, code |-> "RATE_LIMIT_ERROR"],
                     [words |-> {"validation", "invalid"}, code |-> "VALIDATION_ERROR"],
                     [words |-> {"network", "connection"}, code |-> "NETWORK_ERROR"]>>
          matching == {r \in DOMAIN rules :
                         \E word \in rules[r].words : Includes(error.message, word)}
          first == CHOOSE r \in matching : \A q \in matching : r <= q
      IN  invocations[i].envelope.code =
            IF error.code # NoCode THEN error.code
            ELSE IF matching # {} THEN rules[first].code
            ELSE "EXECUTION_ERROR"

\* one envelope took the code of an error whose message names a timeout, and
\* another the code of the first of two rules that match its message
C33_Witness ==
  \E i, j \in DOMAIN invocations :
    /\ invocations[i].outcome = "thrown"
    /\ invocations[i].thrown = Error("Error", "connection timeout", "ECONNRESET")
    /\ invocations[i].envelope.code = "ECONNRESET"
    /\ invocations[j].outcome = "thrown"
    /\ invocations[j].thrown = Error("Error", "connection timeout", NoCode)
    /\ invocations[j].envelope.code = "TIMEOUT_ERROR"

\* C34: withRetry calls the operation at most 3 times and stops at the first
\* success; after a failed call n < 3 it calls again only if the error is in
\* the retryable set, after a delay of min(1000 * 2^(n-1), 10000) ms; an error
\* that is not retryable ends the run after that call with no delay, and the
\* error the caller gets is the error of the last call, unmodified.
C34_RetryContract ==
  \A i \in DOMAIN invocations :
    invocations[i].outcome = "retried" =>
      LET calls == invocations[i].calls
          retry == invocations[i].retry
          n == retry.attempts
          retryable(error) ==
            \E code \in {"ECONNRESET", "ETIMEDOUT", "ENOTFOUND", "ECONNREFUSED",
                         "NETWORK_ERROR", "TIMEOUT_ERROR"} :
              Includes(error.message, code) \/ error.code = code
      IN  /\ n = Len(calls) /\ n >= 1 /\ n <= 3
          /\ \A k \in 1..(n - 1) : calls[k] # NoError /\ retryable(calls[k])
          /\ calls[n] # NoError /\ n < 3 => ~retryable(calls[n])
          /\ DOMAIN retry.delays = 1..(n - 1)
          /\ \A k \in 1..(n - 1) : retry.delays[k] = Min(1000 * Pow(2, k - 1), 10000)
          /\ retry.error = calls[n]

\* --------------------------------------------------------- overlapping calls
\* getServers() up to its await of fetchServers: it returns from a valid
\* cache, throws on a denial of the rate limiter, or calls fetchServers and
\* waits.  Other calls run while it waits.
GetServersBegin ==
  LET r == checkRateLimit(discovery.config, discovery.bucket, initialBackoffState, now)
  IN  /\ discovery.fetching < MaxInvocations
      /\ discovery' =
           IF isCacheValid(discovery.cache, now) \/ ~r.result.allowed
           THEN getServers(discovery, now, "list", NoArgument, NoArgument,
                           [ok |-> FALSE])
           ELSE [discovery EXCEPT
                   !.bucket = r.state,
                   !.fetching = @ + 1,
                   !.call = Lookup("list", "allowed", "pending", "none", <<>>,
                                   NoArgument, NoArgument)]
      /\ UNCHANGED <<now, ticks, zone, configs, backoffConfig, states, backoffStates,
                     focus, theServer, admitted, last, invocations>>

\* fetchServers of a waiting getServers() settles, and the call goes on to its
\* return or throw
GetServersSettle(upstream) ==
  LET fetched == cacheAfterFetch(discovery.cache, upstream, now)
  IN  /\ discovery.fetching > 0
      /\ discovery' = [discovery EXCEPT
           !.fetching = @ - 1,
           !.cache = fetched,
           !.call = Lookup("list", "allowed",
                           IF upstream.ok THEN "ok" ELSE "failed",
                           IF upstream.ok \/ fetched # NoCache THEN "none"
                           ELSE "discovery",
                           filterServers(fetched.servers, NoArgument, NoArgument),
                           NoArgument, NoArgument)]
      /\ UNCHANGED <<now, ticks, zone, configs, backoffConfig, states, backoffStates,
                     focus, theServer, admitted, last, invocations>>

\* the catalog under calls that overlap, in both environments
NextOverlap ==
  \/ \E d \in CatalogDeltas : Tick(d)
  \/ GetServersBegin
  \/ \E upstream \in Upstreams : GetServersSettle(upstream)

SpecOverlap == InitTools /\ [][NextOverlap]_vars

\* C35: at most one upstream catalog fetch is in flight at any time: a list
\* call that finds the cache empty or expired while a fetch is in flight
\* issues no fetch of its own.
C35_SingleFlight == discovery.fetching <= 1

\* C36: whatever the environment, each bucket configuration in effect after
\* startup has tokensPerInterval, intervalMs, maxDailyRequests and
\* maxConcurrentRequests of at least 1 and maxBucketSize >= tokensPerInterval.
C36_ConfigDomains ==
  \A config \in {configs[op] : op \in OperationType} \cup {discovery.config} :
    /\ config.tokensPerInterval >= 1
    /\ config.intervalMs >= 1
    /\ config.maxDailyRequests >= 1
    /\ config.maxConcurrentRequests >= 1
    /\ config.maxBucketSize >= config.tokensPerInterval

\* C37: the wait hint of the token gate is exact: when checkRateLimit at time
\* t is denied by the token gate with waitTimeMs = w, then 0 < w <= intervalMs,
\* and on the bucket as the denial left it a checkRateLimit whose concurrent
\* and daily gates pass is still denied by the token gate at t and at
\* t + w - 1, and is allowed at t + w.
C37_WaitHintExact ==
  [][last'.kind \in {"check", "acquire"} /\ ~last'.result.allowed
       /\ last'.result.reason = TokenReason =>
       LET op == last'.op
           config == configs[op]
           w == last'.result.waitTimeMs
           again(t) == checkRateLimit(config, states'[op], backoffStates'[op], t)
           open(t) == /\ checkConcurrentLimit(config, again(t).touched).allowed
                      /\ checkDailyLimit(config, again(t).touched, t).allowed
       IN  /\ 0 < w /\ w <= config.intervalMs
           /\ \A t \in {now, now + w - 1} :
                open(t) => /\ ~again(t).result.allowed
                           /\ again(t).result.reason = TokenReason
           /\ open(now + w) => again(now + w).result.allowed]_vars

\* a third of the interval after the bucket was emptied the token gate denies
\* with a hint of the two thirds that are left
C37_Witness ==
  /\ last.kind = "check"
  /\ ~last.result.allowed
  /\ last.result.reason = TokenReason
  /\ now = 60000
  /\ configs[last.op].intervalMs = 180000
  /\ last.result.waitTimeMs = 120000

\* ------------------------------------------------------------------ holders
\* The callers that hold a permit of a class.  In these runs admitted[op]
\* holds, for each permit of the class that is held, the time it was acquired.
\* acquirePermission(op) by a new caller, with random the value of
\* Math.random(); releasePermission(op) by a holder, which then holds no
\* longer; reset(op), which no holder notices.  The run acquires no further
\* permit once the holders are one more than maxConcurrentRequests.
Permit(kind, op, random) ==
  LET r == checkRateLimit(configs[op], states[op], backoffStates[op], now)
      failed == recordFailure(r.backoff, now)
      backoffDelay == calculateCurrentBackoffDelay(backoffConfig, failed, random)
      totalWaitTime ==
        Max(IF r.result.waitTimeMs = NoValue THEN 0 ELSE r.result.waitTimeMs,
            backoffDelay)
  IN  /\ CASE kind = "acquire" ->
                /\ Len(admitted[op]) <= configs[op].maxConcurrentRequests
                /\ r.result.allowed
                     \/ backoffStates[op].consecutiveFailures < MaxFailures
                /\ states' = [states EXCEPT ![op] =
                     IF r.result.allowed
                     THEN [r.state EXCEPT !.concurrentRequests = @ + 1]
                     ELSE r.state]
                /\ backoffStates' = [backoffStates EXCEPT ![op] =
                     IF r.result.allowed THEN r.backoff ELSE failed]
                /\ admitted' = IF r.result.allowed
                               THEN [admitted EXCEPT ![op] = Append(@, now)]
                               ELSE admitted
                /\ last' = IF r.result.allowed
                           THEN Call("acquire", op, r.touched, r.result,
                                     FALSE, 0, 0, "none")
                           ELSE Call("acquire", op, r.touched, r.result,
                                     TRUE, backoffDelay, totalWaitTime,
                                     mapReasonToLimitType(r.result.reason))
           [] kind = "release" ->
                /\ admitted[op] # <<>>
                /\ states' = [states EXCEPT ![op] = releasePermission(@)]
                /\ admitted' = [admitted EXCEPT ![op] = Tail(@)]
                /\ last' = Call("release", op, states[op], Pass,
                                FALSE, 0, 0, "none")
                /\ UNCHANGED backoffStates
           [] kind = "reset" ->
                /\ states' = [states EXCEPT ![op] = initializeState(now, configs[op])]
                /\ backoffStates' = [backoffStates EXCEPT ![op] = initialBackoffState]
                /\ last' = Call("reset", op, states[op], Pass,
                                FALSE, 0, 0, "none")
                /\ UNCHANGED admitted
      /\ UNCHANGED <<now, ticks, zone, configs, backoffConfig, focus, theServer,
                     discovery, invocations>>

NextHolders ==
  \/ \E d \in BucketDeltas : Tick(d)
  \/ \E kind \in {"acquire", "release", "reset"}, random \in RandomChoices :
       Permit(kind, focus, random)

SpecHolders == Init /\ [][NextHolders]_vars

\* C38: whatever the interleaving of acquire, release and reset on a class in
\* which each holder releases its permit once, the callers that hold a permit
\* of the class are never more than maxConcurrentRequests, also when reset is
\* called while permits are held.
C38_HoldersBound ==
  \A op \in OperationType : Len(admitted[op]) <= configs[op].maxConcurrentRequests

\* C39: every run of the probe terminates, and runSpeedTest starts the
\* measurement it creates, so that no run ends in a timeout with a
\* measurement that was created and never started.
C39_ProbeStarted ==
  /\ [](\A i \in DOMAIN invocations :
          /\ invocations[i].probed => invocations[i].started
          /\ invocations[i].outcome = "timeout" => invocations[i].started)
  /\ \A i \in 1..MaxInvocations :
       (Len(invocations) >= i /\ invocations[i].phase = "running")
         ~> (Len(invocations) >= i /\ invocations[i].phase = "done")

====
